---- MODULE Spec2Model ----
(***************************************************************************)
(* A model of mrc_python_tools' generate_blocks package: the signature     *)
(* text parser and the function-doc splitter (python_util.py), the         *)
(* function-block generators (blocks.py) and the reflection graph walker   *)
(* (python_util.py).                                                       *)
(*                                                                         *)
(* Text is a sequence of one-character strings.  Indices are 0-based, as   *)
(* in the Python source; At and Slice translate to TLA+'s 1-based ones.    *)
(***************************************************************************)
EXTENDS Integers, Sequences, FiniteSets, TLC

VARIABLES
  sigIn,        \* the signature a line was formatted from, or NoSig
  line,         \* signature_line, the argument of processSignature
  grammatical,  \* whether line follows the grammar name(params) -> returnType
  sigPc,        \* "start" before processSignature was called, "parsed" after
  sigOut        \* what processSignature returned, or that it raised

sigVars == <<sigIn, line, grammatical, sigPc, sigOut>>

VARIABLES
  docIn,        \* how the routine's doc was put together
  routine,      \* the routine handed to processFunctionDoc
  docPc,        \* "start" before processFunctionDoc was called, "done" after
  docOut        \* what processFunctionDoc returned, or that it raised

docVars == <<docIn, routine, docPc, docOut>>

VARIABLES
  owner,          \* "module" or "class": whose functions are being generated
  aliases,        \* BlocksGenerator._dict_class_name_to_alias
  toolbox_blocks, \* the block descriptors generated so far
  stderr,         \* the messages printed so far
  genPc,          \* "ready", "aborted" (an exception escaped), "stuck"
  calls,          \* the number of generator calls made
  last            \* the last call: its member, toolbox_blocks and stderr
                  \* before it, and how it ended

genVars == <<owner, aliases, toolbox_blocks, stderr, genPc, calls, last>>

VARIABLES
  members,        \* inspect.getmembers(object) of each module and class
  root_modules,   \* the argument of collectModulesAndClasses
  modules,        \* the modules collected so far
  classes,        \* the classes collected so far
  dict_class_name_to_alias,
  ids,            \* the identities _collectModulesAndClasses was entered with
  frames,         \* the calls of _collectModulesAndClasses in progress
  iRoot,          \* the index of the next root module
  walkPc,         \* "walking", "returned", "stuck" (a call does not return),
                  \* "constructed" (BlocksGenerator.__init__ is done)
  getmembers_calls, \* history: how often each object's members were listed
  stopped_at,     \* history: the built-in objects the walk stopped at
  dict_class_name_to_allowed_types
                  \* BlocksGenerator._dict_class_name_to_allowed_types

walkVars == <<members, root_modules, modules, classes, dict_class_name_to_alias,
              ids, frames, iRoot, walkPc, getmembers_calls, stopped_at,
              dict_class_name_to_allowed_types>>

VARIABLES
  resIn,        \* the alias map and the type name varNameForType is called with
  resPc,        \* "start" before varNameForType was called, "done" after
  resOut        \* the name the while loop ended with and what was returned

resVars == <<resIn, resPc, resOut>>

VARIABLES
  blkIn,        \* the arguments of generateFunctionBlock
  blkPc,        \* "start" before generateFunctionBlock was called, "done" after
  blkOut        \* the descriptor returned and the number of warnings printed

blkVars == <<blkIn, blkPc, blkOut>>

VARIABLES
  toolbox_function_names, \* the dict main fills: [key, function_name] in insertion order
  ts_file_names,          \* the dict main fills: key -> name of the generated file
  treePc,                 \* "start" before _writeToolboxFile was called, "written" after
  category_tree,          \* what _buildCategoryTree returned
  toolbox,                \* what _organizeToolbox returned, piece by piece
  ts_file                 \* the text written to toolbox.ts

treeVars == <<toolbox_function_names, ts_file_names, treePc, category_tree,
              toolbox, ts_file>>

VARIABLES
  catIn,          \* the module or class a category is generated for: its
                  \* members and the generator's alias map
  catPc,          \* "generating", "written", "skipped" (the class is an enum),
                  \* "aborted" (an exception escaped), "stuck"
  catPhase,       \* the loop of the handler the next generator call is in
  catI,           \* the index of that call in its loop
  catBlocks,      \* toolbox_blocks of the handler
  catImports,     \* import_lines_set of the handler
  catLines,       \* initialize_lines of the handler
  catErr,         \* the messages printed so far
  catFile         \* the generated file and what was registered for it

catVars == <<catIn, catPc, catPhase, catI, catBlocks, catImports, catLines,
             catErr, catFile>>

VARIABLES
  tokText,        \* the text between the parentheses of a signature line
  tokI,           \* the index a token starts at
  tokDelimiters,  \* the delimiters that end the token
  tokPc,          \* "start", "scanned"
  tokEnd,         \* what _findEndOfToken(tokText, tokI, tokDelimiters) returned
  tokParsed       \* what processSignature made of the line `f(tokText) -> None`

tokVars == <<tokText, tokI, tokDelimiters, tokPc, tokEnd, tokParsed>>

VARIABLES
  exMembers,      \* sorted(dir(object)) with getattr, for every object
  exRoots,        \* self._root_modules of the Examine object
  exIds,          \* ids of examine
  exSigClasses,   \* classes_from_function_signatures of examine
  exFrames,       \* the calls of _examine in progress that go through members
  exRoot,         \* the index of the next root module
  exPc,           \* "roots", "pass", "returned", "stuck"
  exI,            \* the index of the for loop over the classes of a pass
  exBreakOut,     \* break_out of the pass
  exExamined,     \* for every object, how often _examine recorded its id
  exCall          \* the call of _examine that has not yet begun, or NoExCall

exVars == <<exMembers, exRoots, exIds, exSigClasses, exFrames, exRoot, exPc,
            exI, exBreakOut, exExamined, exCall>>

vars == <<sigVars, docVars, genVars, walkVars, resVars, blkVars,
         treeVars,
         catVars,
         tokVars,
         exVars>>

-----------------------------------------------------------------------------
(* Python's str operations, as the source uses them.                       *)

\* Python's None where the source stores it in a list of texts: a sequence
\* that no text equals (its one element is not a single character).
None == <<"None">>

Max(a, b) == IF a > b THEN a ELSE b
Min(a, b) == IF a < b THEN a ELSE b

\* text[i] for a 0-based index i
At(text, i) == text[i + 1]

\* text[a:b], with Python's treatment of negative and out-of-range indices
Slice(text, a, b) ==
  LET n  == Len(text)
      lo == IF a < 0 THEN Max(n + a, 0) ELSE Min(a, n)
      hi == IF b < 0 THEN Max(n + b, 0) ELSE Min(b, n)
  IN  IF lo >= hi THEN <<>> ELSE SubSeq(text, lo + 1, hi)

\* text[a:]
SliceFrom(text, a) == Slice(text, a, Len(text))

\* text.startswith(prefix)
StartsWith(text, prefix) ==
  /\ Len(prefix) <= Len(text)
  /\ SubSeq(text, 1, Len(prefix)) = prefix

\* text.find(pat, start): the lowest index >= start where pat occurs, or -1
Find(text, pat, start) ==
  LET from == IF start < 0 THEN Max(Len(text) + start, 0) ELSE start
      hits == {i \in from .. (Len(text) - Len(pat)) :
                 SubSeq(text, i + 1, i + Len(pat)) = pat}
  IN  IF hits = {} THEN -1
      ELSE CHOOSE i \in hits : \A j \in hits : i <= j

\* text.rfind(pat): the highest index where pat occurs, or -1
RFind(text, pat) ==
  LET hits == {i \in 0 .. (Len(text) - Len(pat)) :
                 SubSeq(text, i + 1, i + Len(pat)) = pat}
  IN  IF hits = {} THEN -1
      ELSE CHOOSE i \in hits : \A j \in hits : i >= j

\* the characters str.strip() removes
Whitespace == {" ", "\n", "\t", "\r"}

\* text.strip()
Strip(text) ==
  LET keep == {i \in 1 .. Len(text) : text[i] \notin Whitespace}
  IN  IF keep = {} THEN <<>>
      ELSE SubSeq(text,
                  CHOOSE i \in keep : \A j \in keep : i <= j,
                  CHOOSE i \in keep : \A j \in keep : i >= j)

\* the characters the regular expression class \w matches
WordChars ==
  {"a","b","c","d","e","f","g","h","i","j","k","l","m","n","o","p","q","r",
   "s","t","u","v","w","x","y","z",
   "A","B","C","D","E","F","G","H","I","J","K","L","M","N","O","P","Q","R",
   "S","T","U","V","W","X","Y","Z",
   "0","1","2","3","4","5","6","7","8","9","_"}

-----------------------------------------------------------------------------
(* python_util.py: the signature text parser                               *)

\* re.fullmatch(r"(\w+)\((.*)\) \-\> (.+)", line): the name is the run of
\* word characters before the first "(", the greedy (.*) ends at the last
\* ") -> " that leaves at least one character for (.+), and "." matches no
\* newline.  ok is FALSE when there is no match.
NoMatch == [ok |-> FALSE, name |-> <<>>, args |-> <<>>, ret |-> <<>>]

SignatureMatch(text) ==
  LET n     == Len(text)
      open  == Find(text, <<"(">>, 0)
      arrow == <<")", " ", "-", ">", " ">>
      ends  == {p \in (open + 1) .. (n - 6) : SubSeq(text, p + 1, p + 5) = arrow}
  IN  IF \/ open < 1
         \/ \E i \in 1 .. open : text[i] \notin WordChars
         \/ \E i \in 1 .. n : text[i] = "\n"
         \/ ends = {}
      THEN NoMatch
      ELSE LET p == CHOOSE q \in ends : \A r \in ends : q >= r
           IN  [ok   |-> TRUE,
                name |-> Slice(text, 0, open),
                args |-> Slice(text, open + 1, p),
                ret  |-> SliceFrom(text, p + 5)]

\* mutant: every line counts as a signature line
_isSignature_any(text) == TRUE

_isSignature(text) == SignatureMatch(text).ok

\* _findEndOfToken: the scan from index i, with the stack of closing
\* brackets still to be found
RECURSIVE FindEndFrom(_, _, _, _)
FindEndFrom(text, i, delimiters, stack) ==
  IF ~(i < Len(text)) THEN i
  ELSE LET ch == At(text, i) IN
       IF ch = "(" THEN FindEndFrom(text, i + 1, delimiters, Append(stack, ")"))
       ELSE IF ch = "[" THEN FindEndFrom(text, i + 1, delimiters, Append(stack, "]"))
       ELSE IF Len(stack) > 0
            THEN IF ch = stack[Len(stack)]
                 THEN FindEndFrom(text, i + 1, delimiters, SubSeq(stack, 1, Len(stack) - 1))
                 ELSE FindEndFrom(text, i + 1, delimiters, stack)
            ELSE IF ch \in delimiters THEN i
                 ELSE FindEndFrom(text, i + 1, delimiters, stack)

\* mutant: the scan stops at the first delimiter, inside brackets or not
_findEndOfToken_flat(text, i, delimiters) ==
  LET hits == {j \in i .. (Len(text) - 1) : At(text, j) \in delimiters}
  IN  IF hits = {} THEN Max(i, Len(text))
      ELSE CHOOSE j \in hits : \A h \in hits : j <= h

_findEndOfToken(text, i, delimiters) == FindEndFrom(text, i, delimiters, <<>>)

\* One iteration of processSignature's `while i < len(args)` loop, entered
\* with i < len(args).  brk is TRUE when the iteration ends in `break`.
ScanStep(args, i, names, types, defaults) ==
  LET n == Len(args)
      j == Find(args, <<":", " ">>, i)
  IN  IF j = -1 /\ At(args, i) = "*"
      THEN [brk      |-> TRUE,
            i        |-> j,
            names    |-> Append(names, SliceFrom(args, i + 1)),
            types    |-> Append(types, <<"t","u","p","l","e">>),
            defaults |-> Append(defaults, None)]
      ELSE LET iStartOfArgType == j + 2
               k        == _findEndOfToken(args, iStartOfArgType, {",", " "})
               hasDef   == k + 2 < n /\ Slice(args, k, k + 3) = <<" ", "=", " ">>
               iStartOfDefaultValue == k + 3
               m        == IF hasDef
                           THEN _findEndOfToken(args, iStartOfDefaultValue, {","})
                           ELSE k
               skip     == m + 1 < n /\ Slice(args, m, m + 2) = <<",", " ">>
           IN  [brk      |-> FALSE,
                i        |-> IF skip THEN m + 2 ELSE m,
                names    |-> Append(names, Slice(args, i, j)),
                types    |-> Append(types, Slice(args, iStartOfArgType, k)),
                defaults |-> Append(defaults,
                                    IF hasDef
                                    THEN Slice(args, iStartOfDefaultValue, m)
                                    ELSE None)]

\* The loop run to its end.  The next index is a function of the current
\* one, so the loop never ends exactly when an index comes back: that run
\* is reported as "diverges" (the lists grow without bound).
RECURSIVE ScanArgs(_, _, _, _, _, _)
ScanArgs(args, i, names, types, defaults, seen) ==
  IF ~(i < Len(args))
  THEN [status |-> "ok", names |-> names, types |-> types, defaults |-> defaults]
  ELSE IF i \in seen
  THEN [status |-> "diverges", names |-> <<>>, types |-> <<>>, defaults |-> <<>>]
  ELSE LET s == ScanStep(args, i, names, types, defaults) IN
       IF s.brk
       THEN [status |-> "ok", names |-> s.names, types |-> s.types,
             defaults |-> s.defaults]
       ELSE ScanArgs(args, s.i, s.names, s.types, s.defaults, seen \cup {i})

\* processSignature(signature_line).  status is "ok" with the returned
\* tuple, "raises" for the Exception of line 68, "diverges" when the loop
\* does not end.
processSignature(text) ==
  LET match == SignatureMatch(text) IN
  IF ~match.ok
  THEN [status |-> "raises", function_name |-> <<>>, arg_names |-> <<>>,
        arg_types |-> <<>>, arg_default_values |-> <<>>, return_type |-> <<>>]
  ELSE LET r == ScanArgs(match.args, 0, <<>>, <<>>, <<>>, {}) IN
       [status             |-> r.status,
        function_name      |-> IF r.status = "ok" THEN match.name ELSE <<>>,
        arg_names          |-> r.names,
        arg_types          |-> r.types,
        arg_default_values |-> r.defaults,
        return_type        |-> IF r.status = "ok" THEN match.ret ELSE <<>>]

-----------------------------------------------------------------------------
(* python_util.py: splitting a routine's documentation                     *)

\* A routine is [name |-> __name__, doc |-> __doc__]; doc is None when the
\* routine carries no documentation.

Digits == <<"0", "1", "2", "3", "4", "5", "6", "7", "8", "9">>

\* str(n) for n >= 0, as the f-string of line 288 formats expected_number
RECURSIVE StrNat(_)
StrNat(n) ==
  IF n < 10 THEN <<Digits[n + 1]>>
  ELSE StrNat(n \div 10) \o <<Digits[(n % 10) + 1]>>

HexChars ==
  {"0","1","2","3","4","5","6","7","8","9",
   "a","b","c","d","e","f","A","B","C","D","E","F"}

AddressPrefix == <<" ","o","b","j","e","c","t"," ","a","t"," ","0","x">>

\* re.sub(r" object at 0x[0-9a-fA-F]{9}", "", text): every match, leftmost
\* first and not overlapping, is removed
RECURSIVE RemoveAddresses(_)
RemoveAddresses(text) ==
  LET np   == Len(AddressPrefix)
      hits == {i \in 0 .. (Len(text) - np - 9) :
                 /\ SubSeq(text, i + 1, i + np) = AddressPrefix
                 /\ \A k \in 1 .. 9 : text[i + np + k] \in HexChars}
  IN  IF hits = {} THEN text
      ELSE LET i == CHOOSE h \in hits : \A g \in hits : h <= g
           IN  Slice(text, 0, i) \o RemoveAddresses(SliceFrom(text, i + np + 9))

\* f"{object.__name__}(*args, **kwargs)\nOverloaded function.\n\n"
OverloadHeader(name) == name \o <<"(","*","a","r","g","s",","," ","*","*","k","w","a","r","g","s",")","\n","O","v","e","r","l","o","a","d","e","d"," ","f","u","n","c","t","i","o","n",".","\n","\n">>

isOverloaded(object) ==
  /\ object.doc # None
  /\ object.doc # <<>>
  /\ StartsWith(object.doc, OverloadHeader(object.name))

\* f"\n\n{expected_number}. "
SectionMarker(expected_number) ==
  <<"\n", "\n">> \o StrNat(expected_number) \o <<".", " ">>

\* The `while True` loop of lines 285-297: the indices where signatures
\* start and where comments end
RECURSIVE ScanSections(_, _, _, _, _)
ScanSections(doc, expected_number, index, signatureIndices, commentEndIndices) ==
  LET s     == SectionMarker(expected_number)
      found == Find(doc, s, index)
  IN  IF found = -1
      THEN [signatureIndices  |-> signatureIndices,
            commentEndIndices |-> Append(commentEndIndices, Len(doc))]
      ELSE ScanSections(doc, expected_number + 1, found + Len(s),
                        Append(signatureIndices, found + Len(s)),
                        IF expected_number > 1
                        THEN Append(commentEndIndices, found)
                        ELSE commentEndIndices)

\* mutant: every marker is searched from the start of the doc
RECURSIVE ScanSections_fromStart(_, _, _, _, _)
ScanSections_fromStart(doc, expected_number, index, signatureIndices, commentEndIndices) ==
  LET s     == SectionMarker(expected_number)
      found == Find(doc, s, 0)
  IN  IF found = -1
      THEN [signatureIndices  |-> signatureIndices,
            commentEndIndices |-> Append(commentEndIndices, Len(doc))]
      ELSE ScanSections_fromStart(doc, expected_number + 1, found + Len(s),
                                  Append(signatureIndices, found + Len(s)),
                                  IF expected_number > 1
                                  THEN Append(commentEndIndices, found)
                                  ELSE commentEndIndices)

\* mutant of scanOverloads
scanOverloads_fromStart(doc) == ScanSections_fromStart(doc, 1, 0, <<>>, <<>>)

\* The scan of an overloaded doc, from expected_number 1 at index 0
scanOverloads(doc) == ScanSections(doc, 1, 0, <<>>, <<>>)

\* processFunctionDoc(object) for a routine.  status is "raises" when
\* re.sub is handed None for the doc (TypeError).
processFunctionDoc(object) ==
  IF object.doc = None
  THEN [status |-> "raises", signatures |-> <<>>, comments |-> <<>>]
  ELSE
  LET doc == RemoveAddresses(object.doc) IN
  IF ~isOverloaded(object)
  THEN LET eolIndex == Find(doc, <<"\n">>, 0)
           first    == Slice(doc, 0, eolIndex)
       IN  IF _isSignature(first)
           THEN [status     |-> "ok",
                 signatures |-> <<first>>,
                 comments   |-> <<Strip(SliceFrom(doc, eolIndex + 1))>>]
           ELSE [status |-> "ok", signatures |-> <<>>, comments |-> <<>>]
  ELSE LET scan == scanOverloads(doc)
           n    == Len(scan.signatureIndices)
           eol(i) == Find(doc, <<"\n">>, scan.signatureIndices[i])
       IN  [status     |-> "ok",
            signatures |-> [i \in 1 .. n |->
                              Slice(doc, scan.signatureIndices[i], eol(i))],
            comments   |-> [i \in 1 .. n |->
                              Strip(Slice(doc, eol(i) + 1,
                                          scan.commentEndIndices[i]))]]

-----------------------------------------------------------------------------
(* blocks.py: names of modules and classes                                 *)

\* A class is [module |-> __module__, name |-> __name__].

\* _DICT_FULL_MODULE_NAME_TO_MODULE_NAME, in the order of the source: the
\* entries of the packages the model's classes live in
ModuleNameTable ==
  <<[full |-> <<"h","a","l",".","_","w","p","i","H","a","l">>, public |-> <<"h","a","l">>],
    [full |-> <<"h","a","l",".","s","i","m","u","l","a","t","i","o","n",".","_","s","i","m","u","l","a","t","i","o","n">>, public |-> <<"h","a","l",".","s","i","m","u","l","a","t","i","o","n">>],
    [full |-> <<"w","p","i","l","i","b",".","_","w","p","i","l","i","b">>, public |-> <<"w","p","i","l","i","b">>]>>

\* getModuleName(m) for a module name
getModuleName(module_name) ==
  LET hits == {i \in 1 .. Len(ModuleNameTable) :
                 ModuleNameTable[i].full = module_name}
  IN  IF hits = {} THEN module_name
      ELSE ModuleNameTable[CHOOSE i \in hits : TRUE].public

\* getFullClassName(cls): the text between the quotes of str(cls)
getFullClassName(cls) == cls.module \o <<".">> \o cls.name

\* getClassName(c) for a full class name: the first table entry whose full
\* module name, followed by a dot, starts the class name is replaced
getClassNameOf(full_class_name) ==
  LET hits == {i \in 1 .. Len(ModuleNameTable) :
                 StartsWith(full_class_name,
                            ModuleNameTable[i].full \o <<".">>)}
  IN  IF hits = {} THEN full_class_name
      ELSE LET i == CHOOSE h \in hits : \A g \in hits : h <= g
           IN  ModuleNameTable[i].public \o
               SliceFrom(full_class_name, Len(ModuleNameTable[i].full))

\* getClassName(c) for a class
getClassName(cls) == getClassNameOf(getFullClassName(cls))

UpperCase == <<"A","B","C","D","E","F","G","H","I","J","K","L","M","N","O","P","Q","R","S","T","U","V","W","X","Y","Z">>
LowerCase == <<"a","b","c","d","e","f","g","h","i","j","k","l","m","n","o","p","q","r","s","t","u","v","w","x","y","z">>

\* str.lower() and str.upper() of one character
LowerChar(ch) ==
  IF \E i \in 1 .. 26 : UpperCase[i] = ch
  THEN LowerCase[CHOOSE i \in 1 .. 26 : UpperCase[i] = ch] ELSE ch
UpperChar(ch) ==
  IF \E i \in 1 .. 26 : LowerCase[i] = ch
  THEN UpperCase[CHOOSE i \in 1 .. 26 : LowerCase[i] = ch] ELSE ch

Lower(text) == [i \in 1 .. Len(text) |-> LowerChar(text[i])]
Upper(text) == [i \in 1 .. Len(text) |-> UpperChar(text[i])]

\* getSelfArgName(cls)
getSelfArgName(cls) == Lower(Slice(cls.name, 0, 1)) \o SliceFrom(cls.name, 1)

\* The classes python_util.getClass can import in the model's environment
ClassA == [module |-> <<"h","a","l",".","_","w","p","i","H","a","l">>, name |-> <<"A">>]
ClassB == [module |-> <<"h","a","l",".","_","w","p","i","H","a","l">>, name |-> <<"B">>]
ClassC == [module |-> <<"h","a","l",".","_","w","p","i","H","a","l">>, name |-> <<"C">>]
ClassD == [module |-> <<"h","a","l",".","_","w","p","i","H","a","l">>, name |-> <<"D">>]
ClassLogger == [module |-> <<"l","o","g","g","i","n","g">>, name |-> <<"L","o","g","g","e","r">>]
\* a class of a library module that is no member of the modules walked
ClassE == [module |-> <<"w","p","i","m","a","t","h">>, name |-> <<"E">>]

\* a class of the library that derives from typing.Generic and from E
ClassF == [module |-> <<"h","a","l",".","_","w","p","i","H","a","l">>, name |-> <<"F">>]
ClassM == [module |-> <<"h","a","l",".","_","w","p","i","H","a","l">>, name |-> <<"M">>]

\* classes named only in signatures of routines of E and of G, and an enum
ClassG == [module |-> <<"w","p","i","m","a","t","h">>, name |-> <<"G">>]
ClassH == [module |-> <<"w","p","i","m","a","t","h">>, name |-> <<"H">>]
ClassMode == [module |-> <<"h","a","l",".","_","w","p","i","H","a","l">>, name |-> <<"M","o","d","e">>]

ImportableClasses ==
  {ClassA, ClassB, ClassC, ClassD, ClassE, ClassG, ClassH, ClassMode,
   ClassLogger}

\* python_util.getClass(full_class_name): ok is FALSE when the import, the
\* attribute lookup or the class test raises
getClass(full_class_name) ==
  LET hits == {c \in ImportableClasses : getFullClassName(c) = full_class_name}
  IN  IF hits = {} THEN [ok |-> FALSE, cls |-> ClassA]
      ELSE [ok |-> TRUE, cls |-> CHOOSE c \in hits : TRUE]

-----------------------------------------------------------------------------
(* blocks.py: block descriptors                                            *)

\* A dict is a function; a dict without entries is the empty function.
EmptyDict == [k \in {} |-> <<>>]

\* the keys of the input sockets: 'ARG<i>', 'VALUE'
ArgKey(i) == <<"ARG", i>>
ValueKey == <<"VALUE", 0>>

\* The alias chain of varNameForType's while loop, lines 210-211.  A chain
\* that comes back to a name never ends: status "diverges".
RECURSIVE FollowAliases(_, _, _)
FollowAliases(alias_map, t, seen) ==
  IF t \notin DOMAIN alias_map THEN [status |-> "ok", t |-> t]
  ELSE IF t \in seen THEN [status |-> "diverges", t |-> t]
  ELSE FollowAliases(alias_map, alias_map[t], seen \cup {t})

\* the rest of varNameForType, lines 212-224
VarNameOfResolved(t) ==
  IF StartsWith(t, <<"t","u","p","l","e">>) THEN <<"m","y","T","u","p","l","e">>
  ELSE IF StartsWith(t, <<"d","i","c","t">>) THEN <<"m","y","D","i","c","t">>
  ELSE IF StartsWith(t, <<"l","i","s","t">>) THEN <<"m","y","L","i","s","t">>
  ELSE LET lastDot == RFind(t, <<".">>)
       IN  IF lastDot # -1 THEN <<"m","y">> \o SliceFrom(t, lastDot + 1) ELSE <<>>

\* varNameForType(t)
varNameForType(alias_map, t) ==
  LET r == FollowAliases(alias_map, t, {}) IN
  [status |-> r.status,
   name   |-> IF r.status = "ok" THEN VarNameOfResolved(r.t) ELSE <<>>]

valueVariableGetter(var_name) ==
  [block |-> [type |-> "variables_get", fields |-> [VAR |-> [name |-> var_name]]]]

DigitChars == {"0", "1", "2", "3", "4", "5", "6", "7", "8", "9"}
DigitValue(ch) == CHOOSE d \in 0 .. 9 : Digits[d + 1] = ch

\* text is digits with single underscores between them
IsDigitRun(text) ==
  /\ Len(text) > 0
  /\ text[1] \in DigitChars /\ text[Len(text)] \in DigitChars
  /\ \A i \in 1 .. Len(text) :
       \/ text[i] \in DigitChars
       \/ text[i] = "_" /\ text[i - 1] \in DigitChars /\ text[i + 1] \in DigitChars

Unsigned(text) ==
  IF Len(text) > 0 /\ text[1] \in {"+", "-"} THEN Tail(text) ELSE text

\* int(text) does not raise ValueError: a decimal integer, with an optional
\* sign, underscores between digits and whitespace around it
IsPyInt(text) == IsDigitRun(Unsigned(Strip(text)))

\* the text before and the text after the first "." of an unsigned number
IntPart(u) ==
  LET dot == Find(u, <<".">>, 0) IN IF dot = -1 THEN u ELSE Slice(u, 0, dot)
FracPart(u) ==
  LET dot == Find(u, <<".">>, 0) IN IF dot = -1 THEN <<>> ELSE SliceFrom(u, dot + 1)

IsFraction(ip, fp) ==
  /\ ip # <<>> \/ fp # <<>>
  /\ ip = <<>> \/ IsDigitRun(ip)
  /\ fp = <<>> \/ IsDigitRun(fp)

IsUnsignedFloat(u) ==
  IF Find(u, <<".">>, 0) = -1 THEN IsDigitRun(u)
  ELSE IsFraction(IntPart(u), FracPart(u))

\* float(text) does not raise ValueError, for texts without an exponent,
\* "inf" or "nan": digits with an optional fraction part
IsPyFloat(text) == IsUnsignedFloat(Unsigned(Strip(text)))

\* the digits of a run, without the underscores
DigitsOf(text) == SelectSeq(text, LAMBDA ch : ch \in DigitChars)

RECURSIVE DropLeadingZeros(_)
DropLeadingZeros(ds) ==
  IF Len(ds) > 1 /\ ds[1] = "0" THEN DropLeadingZeros(Tail(ds)) ELSE ds
RECURSIVE DropTrailingZeros(_)
DropTrailingZeros(ds) ==
  IF Len(ds) > 0 /\ ds[Len(ds)] = "0"
  THEN DropTrailingZeros(SubSeq(ds, 1, Len(ds) - 1)) ELSE ds

\* the value of a number with the digits ip before and fp after the ".":
\* the sign, the integer digits without leading zeros and the fraction
\* digits without trailing zeros
FloatOf(negative, ip, fp) ==
  LET int == DropLeadingZeros(IF ip = <<>> THEN <<"0">> ELSE DigitsOf(ip))
      frc == DropTrailingZeros(DigitsOf(fp))
  IN  [negative |-> negative /\ ~(int = <<"0">> /\ frc = <<>>),
       int |-> int, frac |-> frc]

SignedFloat(t) ==
  FloatOf(t[1] = "-", IntPart(Unsigned(t)), FracPart(Unsigned(t)))

\* float(text) for a text IsPyFloat accepts
PyFloat(text) == SignedFloat(Strip(text))

valueNumber(num_value) ==
  [shadow |-> [type |-> "math_number", fields |-> [NUM |-> PyFloat(num_value)]]]

valueString(text_value) ==
  LET n      == Len(text_value)
      quoted == \/ StartsWith(text_value, <<"\"">>) /\ text_value[n] = "\""
                \/ StartsWith(text_value, <<"'">>) /\ text_value[n] = "'"
  IN  [shadow |-> [type |-> "text",
                   fields |-> [TEXT |-> IF quoted THEN Slice(text_value, 1, -1)
                                        ELSE text_value]]]

valueBoolean(bool_value) ==
  [shadow |-> [type |-> "logic_boolean", fields |-> [BOOL |-> Upper(bool_value)]]]

\* createBlock: 'fields' and 'inputs' are left out when empty, which the
\* empty function stands for
createBlock(block_type, extra_state, field_names, field_values, inputs) ==
  [kind       |-> "block",
   type       |-> block_type,
   extraState |-> extra_state,
   fields     |-> [i \in 1 .. Len(field_names) |->
                     <<field_names[i], field_values[i]>>],
   inputs     |-> inputs]

\* mutant: the block is handed back as it is
variableSetter_unwrapped(var_name, block) == block

variableSetter(var_name, block) ==
  [kind       |-> "block",
   type       |-> "variables_set",
   fields     |-> <<<<"VAR", var_name>>>>,
   inputs     |-> (ValueKey :> [block |-> block])]


\* What generateFunctionBlock plugs into the input socket of an argument,
\* lines 315-344, given v, what varNameForType made of the argument's type:
\* socket is FALSE when the socket stays empty, warn is TRUE when a warning
\* is printed.
SocketFor(v, arg_type, arg_default_value) ==
  LET empty  == [status |-> "ok", socket |-> FALSE, warn |-> FALSE,
                 value |-> valueVariableGetter(<<>>)]
      with(x) == [empty EXCEPT !.socket = TRUE, !.value = x]
  IN  IF v.status # "ok" THEN [empty EXCEPT !.status = v.status]
      ELSE IF v.name # <<>> THEN with(valueVariableGetter(v.name))
      ELSE IF arg_default_value = None \/ arg_default_value = <<>> THEN empty
      ELSE IF arg_type = <<"i","n","t">>
           THEN IF IsPyInt(arg_default_value)
                THEN with(valueNumber(arg_default_value))
                ELSE [empty EXCEPT !.warn = TRUE]
      ELSE IF arg_type = <<"d","o","u","b","l","e">>
           THEN IF IsPyFloat(arg_default_value)
                THEN with(valueNumber(arg_default_value))
                ELSE [empty EXCEPT !.warn = TRUE]
      ELSE IF arg_type = <<"s","t","r">>
           THEN IF arg_default_value = <<"N","o","n","e">> THEN empty
                ELSE with(valueString(arg_default_value))
      ELSE IF arg_type = <<"b","o","o","l">>
           THEN IF arg_default_value \in {<<"T","r","u","e">>, <<"F","a","l","s","e">>}
                THEN with(valueBoolean(arg_default_value))
                ELSE [empty EXCEPT !.warn = TRUE]
      ELSE empty

\* mutant: the argument's type is not resolved through the aliases
ArgSocket_unaliased(alias_map, arg_type, arg_default_value) ==
  SocketFor(varNameForType(EmptyDict, arg_type), arg_type, arg_default_value)

ArgSocket(alias_map, arg_type, arg_default_value) ==
  SocketFor(varNameForType(alias_map, arg_type), arg_type, arg_default_value)

\* generateFunctionBlock's descriptor, lines 301-313 and 346-353, given the sockets of the
\* arguments and ret, what varNameForType made of the return type
FunctionBlockOf(block_type, field_names, field_values, tooltip, return_type, arg_names, arg_types, import_module, socks, ret) ==
  LET n == Len(arg_names)
      extra_state ==
        [tooltip      |-> tooltip,
         returnType   |-> return_type,
         args         |-> [i \in 1 .. n |->
                             [name |-> arg_names[i], type |-> arg_types[i]]],
         importModule |-> import_module]
      inputs == [k \in {ArgKey(i - 1) : i \in {j \in 1 .. n : socks[j].socket}}
                   |-> socks[k[2] + 1].value]
      block == createBlock(block_type, extra_state, field_names, field_values,
                           inputs)
  IN  IF \/ \E i \in 1 .. n : socks[i].status # "ok"
         \/ ret.status # "ok"
      THEN [status |-> "diverges", block |-> block, warnings |-> 0]
      ELSE [status   |-> "ok",
            block    |-> IF ret.name # <<>> THEN variableSetter(ret.name, block)
                         ELSE block,
            warnings |-> Cardinality({i \in 1 .. n : socks[i].warn})]

\* generateFunctionBlock: the descriptor (json.dumps writes it out as it
\* is) and the number of warnings printed.  status is "diverges" when an
\* alias chain does not end.
generateFunctionBlock(alias_map, block_type, field_names, field_values, tooltip, return_type, arg_names, arg_types, arg_default_values, import_module) ==
  FunctionBlockOf(
    block_type, field_names, field_values, tooltip, return_type, arg_names,
    arg_types, import_module,
    [i \in 1 .. Len(arg_names) |->
       ArgSocket(alias_map, arg_types[i], arg_default_values[i])],
    IF return_type # <<>> /\ return_type # <<"N","o","n","e">>
    THEN varNameForType(alias_map, return_type)
    ELSE [status |-> "ok", name |-> <<>>])

-----------------------------------------------------------------------------
(* blocks.py: function blocks                                              *)

\* What a call of a generator leaves behind: outcome is "returned",
\* "raised" (an exception escaped to the caller) or "diverges" (the call
\* does not return); blocks is toolbox_blocks and stderr the messages
\* printed, both as they stand when the call ends.
Ended(outcome, blocks, messages) ==
  [outcome |-> outcome, blocks |-> blocks, stderr |-> messages]

RepeatText(tag, n) == [i \in 1 .. n |-> tag]

\* processSignature inside `try: ... except:`: a loop that does not end
\* grows its lists until the interpreter is out of memory; the MemoryError
\* is caught by the bare except when oom is TRUE, and the call never
\* returns when it is FALSE.
TryProcessSignature(signature, oom) ==
  [processSignature(signature) EXCEPT
     !.status = IF @ = "diverges" /\ oom THEN "raises" ELSE @]

\* The `for iSignature` loop of generateBlockForModuleFunction, lines
\* 524-546, from signature iSignature (1-based) on
RECURSIVE ModuleFunctionLoop(_, _, _, _, _, _, _, _, _)

\* lines 545-546 of one iteration: g is what generateFunctionBlock returned
ModuleFunctionAppend(alias_map, module_name, key, signatures, comments, iSignature, oom, blocks, messages, g) ==
  IF g.status # "ok" THEN Ended("diverges", blocks, messages)
  ELSE ModuleFunctionLoop(
         alias_map, module_name, key, signatures, comments, iSignature + 1, oom,
         Append(blocks, g.block),
         messages \o RepeatText("WARNING - default value", g.warnings))

\* lines 525-546 of one iteration: sig is what the `try` of lines 525-532
\* made of the signature
ModuleFunctionStep(alias_map, module_name, key, signatures, comments, iSignature, oom, blocks, messages, sig) ==
  IF sig.status = "diverges" THEN Ended("diverges", blocks, messages)
  ELSE IF sig.status = "raises"
  THEN ModuleFunctionLoop(
         alias_map, module_name, key, signatures, comments, iSignature + 1, oom,
         blocks, Append(messages, "ERROR: signature not parseable"))
  ELSE IF sig.function_name # key
  THEN ModuleFunctionLoop(
         alias_map, module_name, key, signatures, comments, iSignature + 1, oom,
         blocks, Append(messages, "ERROR: signature has different function name"))
  ELSE ModuleFunctionAppend(
         alias_map, module_name, key, signatures, comments, iSignature, oom,
         blocks, messages,
         generateFunctionBlock(
           alias_map, "call_python_module_function",
           <<"MODULE", "FUNC">>, <<module_name, sig.function_name>>,
           comments[iSignature], sig.return_type, sig.arg_names,
           sig.arg_types, sig.arg_default_values, module_name))

ModuleFunctionLoop(alias_map, module_name, key, signatures, comments, iSignature, oom, blocks, messages) ==
  IF iSignature > Len(signatures) THEN Ended("returned", blocks, messages)
  ELSE ModuleFunctionStep(
         alias_map, module_name, key, signatures, comments, iSignature, oom,
         blocks, messages, TryProcessSignature(signatures[iSignature], oom))

\* generateBlockForModuleFunction(module, key, function, toolbox_blocks)
generateBlockForModuleFunction(alias_map, module, key, function, oom, blocks, messages) ==
  LET module_name == getModuleName(module) IN
  IF function.doc = None \/ function.doc = <<>>
  THEN Ended("returned", blocks,
             Append(messages, "ERROR: no doc for function"))
  ELSE LET d == processFunctionDoc(function) IN
       IF Len(d.signatures) = 0
       THEN Ended("returned", blocks,
                  Append(messages, "WARNING: function doc has no function signature"))
       ELSE ModuleFunctionLoop(alias_map, module_name, key, d.signatures,
                               d.comments, 1, oom, blocks, messages)

T_self == <<"s","e","l","f">>
T_init == <<"_","_","i","n","i","t","_","_">>

\* The `for iSignature` loop of generateBlockForClassOrInstanceFunction,
\* lines 570-626, from signature iSignature (1-based) on; import_module is
\* the variable of line 568, which the loop assigns at line 612
RECURSIVE ClassFunctionLoop(_, _, _, _, _, _, _, _, _, _)

\* lines 625-626 of one iteration: g is what generateFunctionBlock returned
ClassFunctionAppend(alias_map, cls, member_name, signatures, comments, iSignature, oom, import_module, blocks, messages, g) ==
  IF g.status # "ok" THEN Ended("diverges", blocks, messages)
  ELSE ClassFunctionLoop(
         alias_map, cls, member_name, signatures, comments, iSignature + 1, oom,
         import_module, Append(blocks, g.block),
         messages \o RepeatText("WARNING - default value", g.warnings))

\* lines 571-626 of one iteration: sig is what the `try` of lines 571-578
\* made of the signature
ClassFunctionStep(alias_map, cls, member_name, signatures, comments, iSignature, oom, import_module, blocks, messages, sig) ==
  IF sig.status = "diverges" THEN Ended("diverges", blocks, messages)
  ELSE IF sig.status = "raises"
  THEN ClassFunctionLoop(
         alias_map, cls, member_name, signatures, comments, iSignature + 1, oom,
         import_module, blocks,
         Append(messages, "ERROR: signature not parseable"))
  ELSE IF sig.function_name # member_name
  THEN ClassFunctionLoop(
         alias_map, cls, member_name, signatures, comments, iSignature + 1, oom,
         import_module, blocks,
         Append(messages, "ERROR: signature has different function name"))
  ELSE
  LET found_self_arg == Len(sig.arg_names) > 0 /\ sig.arg_names[1] = T_self
      inherited_function ==
        found_self_arg /\ sig.arg_types[1] # getFullClassName(cls)
      declaring == IF inherited_function THEN getClass(sig.arg_types[1])
                   ELSE [ok |-> TRUE, cls |-> cls]
      arg_names == IF found_self_arg
                   THEN [sig.arg_names EXCEPT ![1] = getSelfArgName(declaring.cls)]
                   ELSE sig.arg_names
      is_init == sig.function_name = T_init
      im == IF ~is_init /\ found_self_arg THEN <<>> ELSE import_module
  IN  IF ~declaring.ok
      THEN Ended("raised", blocks, messages)   \* getClass raises, line 594
      ELSE IF is_init /\ Len(sig.arg_names) = 0
      THEN Ended("raised", blocks, messages)   \* IndexError of pop(0), line 604
      ELSE ClassFunctionAppend(
             alias_map, cls, member_name, signatures, comments, iSignature, oom,
             im, blocks, messages,
             generateFunctionBlock(
               alias_map,
               IF is_init THEN "call_python_constructor"
               ELSE IF found_self_arg THEN "call_python_instance_method"
               ELSE "call_python_static_method",
               IF is_init THEN <<"CLASS">> ELSE <<"CLASS", "FUNC">>,
               IF is_init THEN <<getClassName(declaring.cls)>>
               ELSE <<getClassName(declaring.cls), sig.function_name>>,
               comments[iSignature],
               IF found_self_arg /\ is_init THEN sig.arg_types[1]
               ELSE sig.return_type,
               IF is_init THEN Tail(arg_names) ELSE arg_names,
               IF is_init THEN Tail(sig.arg_types) ELSE sig.arg_types,
               IF is_init THEN Tail(sig.arg_default_values)
               ELSE sig.arg_default_values,
               im))

ClassFunctionLoop(alias_map, cls, member_name, signatures, comments, iSignature, oom, import_module, blocks, messages) ==
  IF iSignature > Len(signatures) THEN Ended("returned", blocks, messages)
  ELSE ClassFunctionStep(
         alias_map, cls, member_name, signatures, comments, iSignature, oom,
         import_module, blocks, messages,
         TryProcessSignature(signatures[iSignature], oom))

\* generateBlockForClassOrInstanceFunction(cls, member_name, function,
\* toolbox_blocks)
generateBlockForClassOrInstanceFunction(alias_map, cls, member_name, function, oom, blocks, messages) ==
  IF function.doc = None \/ function.doc = <<>>
  THEN Ended("returned", blocks,
             Append(messages, "ERROR: no doc for function"))
  ELSE LET d == processFunctionDoc(function) IN
       IF Len(d.signatures) = 0
       THEN Ended("returned", blocks,
                  Append(messages, "WARNING: function doc has no function signature"))
       ELSE ClassFunctionLoop(alias_map, cls, member_name, d.signatures,
                              d.comments, 1, oom, getModuleName(cls.module),
                              blocks, messages)

-----------------------------------------------------------------------------
(* python_util.py: the reflection graph walker                             *)

\* An object of the reflected graph is a record: kind is "module", "class",
\* "routine", "value" (what isNothing accepts) or "property" (a data
\* descriptor with fget); name is __name__, module is __module__, doc is
\* __doc__ (of fget for a property), type names the object type(object)
\* gives and mro those inspect.getmro gives.  Objects are named by their
\* identities, and a heap maps the identities to the records.

\* text.split(".")[0]
FirstPart(text) ==
  LET dot == Find(text, <<".">>, 0) IN IF dot = -1 THEN text ELSE Slice(text, 0, dot)

\* text.split("\n")[0]
FirstLine(text) ==
  LET eol == Find(text, <<"\n">>, 0) IN IF eol = -1 THEN text ELSE Slice(text, 0, eol)

\* the members of sys.stdlib_module_names the model's objects come from
StdlibModuleNames == {<<"b","u","i","l","t","i","n","s">>, <<"l","o","g","g","i","n","g">>, <<"t","y","p","i","n","g">>}

\* mutant: no module name counts as built-in
_isBuiltInModuleName_none(first_module_name) == FALSE

_isBuiltInModuleName(first_module_name) ==
  \/ first_module_name \in StdlibModuleNames
  \/ first_module_name = <<"p","y","b","i","n","d","1","1","_","b","u","i","l","t","i","n","s">>

getFullModuleName(module) == module.name

isBuiltInModule(module) == _isBuiltInModuleName(FirstPart(getFullModuleName(module)))

isBuiltInClass(cls) == _isBuiltInModuleName(FirstPart(cls.module))

startsWithUnderscoreDigit(s) ==
  StartsWith(s, <<"_">>) /\ Len(s) > 1 /\ s[2] \in DigitChars

ignoreMember(parent, key, member) ==
  IF member.kind = "module"
  THEN \/ parent.kind # "module"
       \/ ~StartsWith(member.name, parent.name)
       \/ key \in {<<"_","i","m","p","l">>, <<"d","e","p","l","o","y","i","n","f","o">>, <<"v","e","r","s","i","o","n">>}
  ELSE /\ StartsWith(key, <<"_">>)
       /\ key # <<"_","_","i","n","i","t","_","_">>
       /\ ~startsWithUnderscoreDigit(key)

\* str.isupper: no lower-case letter and at least one upper-case letter
IsUpperLetter(ch) == \E k \in 1 .. Len(UpperCase) : UpperCase[k] = ch
IsLowerLetter(ch) == \E k \in 1 .. Len(LowerCase) : LowerCase[k] = ch
isupper(s) ==
  /\ \A k \in 1 .. Len(s) : ~IsLowerLetter(s[k])
  /\ \E k \in 1 .. Len(s) : IsUpperLetter(s[k])

startsWithkUpper(s) ==
  StartsWith(s, <<"k">>) /\ Len(s) > 1 /\ isupper(<<s[2]>>)

\* An object is [kind, type, fget, fset]: kind is what the inspect predicates
\* tell apart ("value" is an object none of them accepts), type is the class
\* of the object, fget and fset are the kinds of the accessors of a property
isNothing(object) == object.kind = "value"

TypeIs(object, cls) == object.type = [module |-> cls.module, name |-> cls.name]

\* parent is [kind, module, name, enum]: enum is what isEnum(parent) returns
isModuleVariableReadable(parent, key, object) ==
  /\ parent.kind = "module"
  /\ ~(StartsWith(key, <<"_">>) /\ ~startsWithUnderscoreDigit(key))
  /\ isNothing(object)
  /\ ~TypeIs(object, ClassLogger)
  /\ object.type.module # <<"t","y","p","i","n","g">>
  /\ object.type.module # <<"_","_","f","u","t","u","r","e","_","_">>

isModuleVariableWritable_constants(parent, key, object) ==
  isModuleVariableReadable(parent, key, object)

isModuleVariableWritable(parent, key, object) ==
  /\ isModuleVariableReadable(parent, key, object)
  /\ ~isupper(key)
  /\ ~startsWithkUpper(key)

isClassVariableReadable(parent, key, object) ==
  /\ parent.kind = "class"
  /\ ~(StartsWith(key, <<"_">>) /\ ~startsWithUnderscoreDigit(key))
  /\ isNothing(object)
  /\ ~(parent.enum /\ TypeIs(object, parent))
  /\ ~TypeIs(object, ClassLogger)
  /\ ~(key = <<"W","P","I","S","t","r","u","c","t">> /\ object.type.name = <<"P","y","C","a","p","s","u","l","e">>)

isClassVariableWritable(parent, key, object) ==
  /\ isClassVariableReadable(parent, key, object)
  /\ ~isupper(key)
  /\ ~startsWithkUpper(key)

isInstanceVariableReadable(parent, key, object) ==
  /\ parent.kind = "class" /\ ~parent.enum
  /\ ~StartsWith(key, <<"_">>)
  /\ ~StartsWith(key, <<"m","_">>)
  /\ object.kind = "datadescriptor"
  /\ object.type = [module |-> <<"b","u","i","l","t","i","n","s">>, name |-> <<"p","r","o","p","e","r","t","y">>]
  /\ object.fget = "routine"

isInstanceVariableWritable(parent, key, object) ==
  /\ isInstanceVariableReadable(parent, key, object)
  /\ object.fset = "routine"

isTypeAlias(parent, key, object) ==
  /\ object.kind = "class"
  /\ key # <<>>
  /\ object.name # key
  /\ parent.kind \in {"module", "class"}

isPrimitive(type_name) == type_name \in {<<"b","o","o","l">>, <<"s","t","r">>, <<"f","l","o","a","t">>, <<"i","n","t">>}

\* the classes getClass gives for the type names, up to the first one for
\* which it raises
RECURSIVE ClassesUntilRaise(_)
ClassesUntilRaise(type_names) ==
  IF type_names = <<>> \/ ~getClass(type_names[1]).ok THEN <<>>
  ELSE <<getClass(type_names[1]).cls>> \o ClassesUntilRaise(Tail(type_names))

\* the type names getClassesFromSignatureLine hands to getClass, in order,
\* given sig, what the `try` made of processSignature; nothing when it
\* raised
ReferencedTypeNames(sig) ==
  IF sig.status # "ok" THEN <<>>
  ELSE SelectSeq(sig.arg_types, LAMBDA t : ~isPrimitive(t)) \o
       (IF sig.return_type # <<"N","o","n","e">> /\ ~isPrimitive(sig.return_type)
        THEN <<sig.return_type>> ELSE <<>>)

\* getClassesFromSignatureLine(signature_line): the bare `except` ends the
\* collection at the first exception and the classes found so far are
\* returned.  status is "diverges" when processSignature does not return.
ClassesOfSignature(sig) ==
  [status  |-> IF sig.status = "diverges" THEN "diverges" ELSE "ok",
   classes |-> ClassesUntilRaise(ReferencedTypeNames(sig))]

getClassesFromSignatureLine(signature_line, oom) ==
  ClassesOfSignature(TryProcessSignature(signature_line, oom))

\* re.fullmatch(r"(\w*)\((\w+)\: (.+)\) \-\> (.+)", signature_line) of
\* _processGetter: word characters up to the first "(", the self name and
\* ": ", then the greedy (.+) up to the last ") -> " that leaves a character
\* for the final (.+).  ok is FALSE when there is no match.
GetterMatchFrom(text, open, colon) ==
  LET ends == {k \in (colon + 3) .. (Len(text) - 6) :
                 SubSeq(text, k + 1, k + 5) = <<")", " ", "-", ">", " ">>}
  IN  IF \/ colon <= open + 1
         \/ \E i \in (open + 2) .. colon : text[i] \notin WordChars
         \/ \E i \in 1 .. Len(text) : text[i] = "\n"
         \/ ends = {}
      THEN [ok |-> FALSE, var_type |-> <<>>]
      ELSE [ok |-> TRUE,
            var_type |-> SliceFrom(text, (CHOOSE k \in ends :
                                            \A j \in ends : j <= k) + 5)]

GetterMatch(text) ==
  LET open == Find(text, <<"(">>, 0) IN
  IF open = -1 \/ \E i \in 1 .. open : text[i] \notin WordChars
  THEN [ok |-> FALSE, var_type |-> <<>>]
  ELSE GetterMatchFrom(text, open, Find(text, <<":", " ">>, open))

\* getVarTypeFromGetter(fget): None when _processGetter raises, which it
\* also does for a getter without doc
getVarTypeFromGetter(fget) ==
  IF fget.doc = None \/ ~GetterMatch(FirstLine(fget.doc)).ok THEN None
  ELSE GetterMatch(FirstLine(fget.doc)).var_type

\* mutant: no identity counts as visited
Visited_never(object, id_list) == FALSE

\* `id(object) in ids`, line 361
Visited(object, id_list) == \E i \in 1 .. Len(id_list) : id_list[i] = object

\* `object in modules`, `object in classes`
Contains(list, object) == \E i \in 1 .. Len(list) : list[i] = object

\* _collectModulesAndClasses(object, ...) up to its for loop, lines 361-374:
\* the lists it leaves, and whether it goes on to inspect.getmembers
Entered(heap, object, id_list, module_list, class_list) ==
  IF Visited(object, id_list)
  THEN [ids |-> id_list, modules |-> module_list, classes |-> class_list,
        enters |-> FALSE]
  ELSE IF \/ heap[object].kind = "module" /\ isBuiltInModule(heap[object])
          \/ heap[object].kind = "class" /\ isBuiltInClass(heap[object])
  THEN [ids |-> Append(id_list, object), modules |-> module_list,
        classes |-> class_list, enters |-> FALSE]
  ELSE [ids     |-> Append(id_list, object),
        modules |-> IF heap[object].kind = "module" /\ ~Contains(module_list, object)
                    THEN Append(module_list, object) ELSE module_list,
        classes |-> IF heap[object].kind = "class" /\ ~Contains(class_list, object)
                    THEN Append(class_list, object) ELSE class_list,
        enters  |-> TRUE]

\* the object of a class python_util.getClass returned
ObjectOfClass(heap, cls) ==
  CHOOSE n \in DOMAIN heap :
    heap[n].kind = "class" /\ heap[n].module = cls.module /\ heap[n].name = cls.name

\* What the for loop's body makes of one member: the objects it calls
\* _collectModulesAndClasses with, in order, and the built-in ones it stops at
NoTargets == [status |-> "ok", targets |-> <<>>, stopped |-> {}]

\* lines 392-396: the classes of inspect.getmro(member) up to the first
\* built-in one
RECURSIVE MroTargets(_, _)
MroTargets(heap, mro) ==
  IF mro = <<>> THEN NoTargets
  ELSE IF isBuiltInClass(heap[mro[1]])
  THEN [NoTargets EXCEPT !.stopped = {mro[1]}]
  ELSE [MroTargets(heap, Tail(mro)) EXCEPT !.targets = <<mro[1]>> \o @]

\* lines 400-403: the classes of the first doc line's signature that are
\* not built-in
SignatureTargets(heap, found) ==
  [status  |-> found.status,
   targets |-> SelectSeq([i \in 1 .. Len(found.classes) |->
                            ObjectOfClass(heap, found.classes[i])],
                         LAMBDA n : ~isBuiltInClass(heap[n])),
   stopped |-> {ObjectOfClass(heap, found.classes[i]) :
                  i \in {j \in 1 .. Len(found.classes) :
                           isBuiltInClass(found.classes[j])}}]

\* lines 406-408: the class of a class variable
TypeTargets(heap, cls) ==
  IF isBuiltInClass(heap[cls]) THEN [NoTargets EXCEPT !.stopped = {cls}]
  ELSE [NoTargets EXCEPT !.targets = <<cls>>]

\* lines 412-419: the class of an instance variable, from var_type
GetterTargets(heap, var_type) ==
  IF var_type = None \/ var_type = <<>> \/ Find(var_type, <<".">>, 0) = -1
  THEN NoTargets
  ELSE IF ~getClass(var_type).ok THEN NoTargets
  ELSE TypeTargets(heap, ObjectOfClass(heap, getClass(var_type).cls))

MemberTargets(heap, member, oom) ==
  CASE heap[member].kind = "module"   ->
         [NoTargets EXCEPT !.targets = <<member>>]
    [] heap[member].kind = "class"    -> MroTargets(heap, heap[member].mro)
    [] heap[member].kind = "routine"  ->
         IF heap[member].doc = None \/ heap[member].doc = <<>> THEN NoTargets
         ELSE SignatureTargets(
                heap, getClassesFromSignatureLine(FirstLine(heap[member].doc), oom))
    [] heap[member].kind = "value"    -> TypeTargets(heap, heap[member].type)
    [] heap[member].kind = "property" ->
         GetterTargets(heap, getVarTypeFromGetter(heap[member]))

\* lines 378-381: the member is passed over
Skipped(heap, object, key, member) ==
  key = <<"_">> \/ ignoreMember(heap[object], key, heap[member])

\* lines 383-388: the alias map after the member
AliasesAfter(heap, object, key, member, alias_map) ==
  IF ~isTypeAlias(heap[object], key, heap[member]) THEN alias_map
  ELSE LET name == (IF heap[object].kind = "module"
                    THEN getModuleName(heap[object].name)
                    ELSE getClassName(heap[object])) \o <<".">> \o key
       IN  [k \in DOMAIN alias_map \cup {name} |->
              IF k = name THEN getClassName(heap[member]) ELSE alias_map[k]]

\* ord(ch) of the characters of module and class names
CharOrder ==
  <<".">> \o Digits \o UpperCase \o <<"_">> \o LowerCase
Ord(ch) == CHOOSE i \in 1 .. Len(CharOrder) : CharOrder[i] = ch

\* a < b for two texts
RECURSIVE TextLess(_, _)
TextLess(a, b) ==
  IF b = <<>> THEN FALSE
  ELSE IF a = <<>> THEN TRUE
  ELSE IF a[1] = b[1] THEN TextLess(Tail(a), Tail(b))
  ELSE Ord(a[1]) < Ord(b[1])

\* classes.sort(key=lambda c: getFullClassName(c)), line 429: a stable sort
RECURSIVE SortedByFullName(_, _)
SortedByFullName(heap, class_list) ==
  IF class_list = <<>> THEN <<>>
  ELSE LET least == CHOOSE i \in 1 .. Len(class_list) :
                      \A j \in 1 .. Len(class_list) :
                        \/ TextLess(getFullClassName(heap[class_list[i]]),
                                    getFullClassName(heap[class_list[j]]))
                        \/ /\ getFullClassName(heap[class_list[i]]) =
                                getFullClassName(heap[class_list[j]])
                           /\ i <= j
       IN  <<class_list[least]>> \o
           SortedByFullName(heap, [k \in 1 .. (Len(class_list) - 1) |->
                                     class_list[IF k < least THEN k ELSE k + 1]])

\* collectAllowedTypes, lines 437-449, for one class: the pairs
\* (mro[i], mro[i + 1]) of inspect.getmro(c) up to the first built-in base
RECURSIVE AllowedTypesOfMro(_, _, _, _)
AllowedTypesOfMro(heap, mro, i, allowed) ==
  IF ~(i < Len(mro)) THEN allowed
  ELSE IF isBuiltInClass(heap[mro[i + 1]]) THEN allowed
  ELSE LET class_name    == getClassName(heap[mro[i + 1]])
           subclass_name == getClassName(heap[mro[i]])
           allowed_types ==
             IF class_name \in DOMAIN allowed /\ allowed[class_name] # <<>>
             THEN allowed[class_name] ELSE <<class_name>>
       IN  AllowedTypesOfMro(
             heap, mro, i + 1,
             [k \in DOMAIN allowed \cup {class_name} |->
                IF k # class_name THEN allowed[k]
                ELSE IF Contains(allowed_types, subclass_name)
                THEN allowed_types
                ELSE Append(allowed_types, subclass_name)])

\* collectAllowedTypes(classes): the for loop over the classes, from class i
RECURSIVE AllowedTypesFrom(_, _, _, _)
AllowedTypesFrom(heap, class_list, i, allowed) ==
  IF i > Len(class_list) THEN allowed
  ELSE AllowedTypesFrom(
         heap, class_list, i + 1,
         AllowedTypesOfMro(heap, heap[class_list[i]].mro, 1, allowed))

\* mutant: only the first class's base classes are recorded
collectAllowedTypes_firstOnly(heap, class_list) ==
  AllowedTypesFrom(heap, SelectSeq(class_list, LAMBDA c : c = class_list[1]), 1,
                   EmptyDict)

collectAllowedTypes(heap, class_list) ==
  AllowedTypesFrom(heap, class_list, 1, EmptyDict)

\* The function getAllowedTypes(type) that generateGetAllowedTypesFunction
\* writes: one `if (type === class_name) return allowed_types` per entry,
\* then `return [""]`
getAllowedTypes(allowed, type) ==
  IF type \in DOMAIN allowed THEN allowed[type] ELSE <<<<>>>>

\* the mutant of SortedTexts: descending
RECURSIVE SortedTexts_descending(_)
SortedTexts_descending(texts) ==
  IF texts = {} THEN <<>>
  ELSE LET most == CHOOSE t \in texts : \A u \in texts \ {t} : TextLess(u, t)
       IN  <<most>> \o SortedTexts_descending(texts \ {most})

\* sorted(names) and names.sort() for names that are all different
RECURSIVE SortedTexts(_)
SortedTexts(texts) ==
  IF texts = {} THEN <<>>
  ELSE LET least == CHOOSE t \in texts : \A u \in texts \ {t} : TextLess(t, u)
       IN  <<least>> \o SortedTexts(texts \ {least})

-----------------------------------------------------------------------------
(* blocks.py: variable and enum blocks                                     *)

\* the key of the input socket 'SELF'
SelfKey == <<"SELF", 0>>

\* what varNameForType is taken to return where it is not called
NoVarName == [status |-> "ok", name |-> <<>>]

\* generateVariableGetterBlock, lines 244-266.  status is "diverges" when
\* varNameForType does not return.
generateVariableGetterBlock(alias_map, block_type, var_kind, module_or_class_name, field_names, field_values, var_type, self_label, self_type, import_module) ==
  LET with_self   == self_label # <<>> /\ self_type # <<>>
      base        == [varKind |-> var_kind,
                      moduleOrClassName |-> module_or_class_name,
                      varType |-> var_type,
                      importModule |-> import_module]
      extra_state == IF with_self
                     THEN base @@ [selfLabel |-> self_label, selfType |-> self_type]
                     ELSE base
      self_var    == IF with_self THEN varNameForType(alias_map, self_type)
                     ELSE NoVarName
      inputs      == IF self_var.name # <<>>
                     THEN (SelfKey :> valueVariableGetter(self_var.name))
                     ELSE EmptyDict
  IN  [status |-> self_var.status,
       block  |-> createBlock(block_type, extra_state, field_names,
                              field_values, inputs)]

\* generateVariableSetterBlock, lines 269-295.  With var_type None line 283
\* raises AttributeError (None has no startswith): status "raises".
generateVariableSetterBlock(alias_map, block_type, var_kind, module_or_class_name, field_names, field_values, var_type, self_label, self_type, import_module) ==
  LET with_self   == self_label # <<>> /\ self_type # <<>>
      base        == [varKind |-> var_kind,
                      moduleOrClassName |-> module_or_class_name,
                      varType |-> var_type,
                      importModule |-> import_module]
      extra_state == IF with_self
                     THEN base @@ [selfLabel |-> self_label, selfType |-> self_type]
                     ELSE base
      value_var   == IF var_type = None THEN [status |-> "raises", name |-> <<>>]
                     ELSE varNameForType(alias_map, var_type)
      self_var    == IF with_self /\ value_var.status = "ok"
                     THEN varNameForType(alias_map, self_type)
                     ELSE NoVarName
      inputs      == (IF value_var.name # <<>>
                      THEN (ValueKey :> valueVariableGetter(value_var.name))
                      ELSE EmptyDict) @@
                     (IF self_var.name # <<>>
                      THEN (SelfKey :> valueVariableGetter(self_var.name))
                      ELSE EmptyDict)
  IN  [status |-> IF value_var.status # "ok" THEN value_var.status
                  ELSE self_var.status,
       block  |-> createBlock(block_type, extra_state, field_names,
                              field_values, inputs)]

\* the mutant of generateEnumValueBlock: the module name is taken for the
\* name of the enum type
generateEnumValueBlock_moduleAsType(field_names, field_values, enum_type, import_module) ==
  createBlock("mrc_get_python_enum_value",
              [enumType |-> import_module, importModule |-> import_module],
              field_names, field_values, EmptyDict)

\* generateEnumValueBlock, lines 355-365
generateEnumValueBlock(field_names, field_values, enum_type, import_module) ==
  createBlock("mrc_get_python_enum_value",
              [enumType |-> enum_type, importModule |-> import_module],
              field_names, field_values, EmptyDict)

\* What a call of a generator of variable or enum blocks leaves behind:
\* outcome as in Ended, and the three collections the caller passed in
EndedWith(outcome, import_lines, lines, blocks) ==
  [outcome |-> outcome, import_lines_set |-> import_lines,
   initialize_lines |-> lines, blocks |-> blocks]

\* how a call ends when a call it makes ended with status
OutcomeOf(status) ==
  CASE status = "ok"       -> "returned"
    [] status = "raises"   -> "raised"
    [] status = "diverges" -> "diverges"

\* `var_name in setter_var_names`
InList(name, names) == \E k \in 1 .. Len(names) : names[k] = name

\* The loop `for var_name in getter_var_names`, lines 416-436 and 479-499,
\* from the i-th name on: the getter block, and directly after it the
\* setter block when the name is in setter_var_names
RECURSIVE VariableBlocksFrom(_, _, _, _, _, _, _, _, _, _, _)
VariableBlocksFrom(alias_map, var_kind, module_or_class_name, var_type, self_label, self_type, import_module, getter_var_names, setter_var_names, i, blocks) ==
  IF i > Len(getter_var_names) THEN [outcome |-> "returned", blocks |-> blocks]
  ELSE LET var_name     == getter_var_names[i]
           field_names  == <<"MODULE_OR_CLASS", "VAR">>
           field_values == <<module_or_class_name, var_name>>
           g == generateVariableGetterBlock(
                  alias_map, "mrc_get_python_variable", var_kind,
                  module_or_class_name, field_names, field_values, var_type,
                  self_label, self_type, import_module)
           s == generateVariableSetterBlock(
                  alias_map, "mrc_set_python_variable", var_kind,
                  module_or_class_name, field_names, field_values, var_type,
                  self_label, self_type, import_module)
       IN  IF g.status # "ok"
           THEN [outcome |-> OutcomeOf(g.status), blocks |-> blocks]
           ELSE IF ~InList(var_name, setter_var_names)
           THEN VariableBlocksFrom(
                  alias_map, var_kind, module_or_class_name, var_type,
                  self_label, self_type, import_module, getter_var_names,
                  setter_var_names, i + 1, Append(blocks, g.block))
           ELSE IF s.status # "ok"
           THEN [outcome |-> OutcomeOf(s.status), blocks |-> Append(blocks, g.block)]
           ELSE VariableBlocksFrom(
                  alias_map, var_kind, module_or_class_name, var_type,
                  self_label, self_type, import_module, getter_var_names,
                  setter_var_names, i + 1,
                  Append(Append(blocks, g.block), s.block))

\* the import lines of lines 381-383 and 452-454
ImportGetPythonVariable ==
  "import * as getPythonVariable from \"../mrc_get_python_variable\";"
ImportSetPythonVariable ==
  "import * as setPythonVariable from \"../mrc_set_python_variable\";"
ImportPythonEnum ==
  "import * as pythonEnum from \"../mrc_get_python_enum_value\";"

\* One line of initialize_lines: the function the line calls and the
\* arguments the f-string formats into it
InitializeLine(call, name, var_type, var_names, tooltips) ==
  [call |-> call, name |-> name, var_type |-> var_type,
   var_names |-> var_names, tooltips |-> tooltips]

\* lines 381-383 and 452-454
VariableImports(import_lines, setter_var_names) ==
  import_lines \cup {ImportGetPythonVariable} \cup
  (IF Len(setter_var_names) > 0 THEN {ImportSetPythonVariable} ELSE {})

\* lines 392-411 and 468-474: the getter line and, when there is a setter
\* name, the setter line
VariableLines(lines, kind, name, var_type, getter_var_names, setter_var_names, getter_tooltips, setter_tooltips) ==
  lines \o
  <<InitializeLine("getPythonVariable.initialize" \o kind \o "VariableGetter",
                   name, var_type, getter_var_names, getter_tooltips)>> \o
  (IF Len(setter_var_names) > 0
   THEN <<InitializeLine("setPythonVariable.initialize" \o kind \o "VariableSetter",
                         name, var_type, setter_var_names, setter_tooltips)>>
   ELSE <<>>)

\* generateBlocksForModuleOrClassVariables, lines 369-436; class_name is
\* None for the variables of a module
generateBlocksForModuleOrClassVariables(alias_map, module_name, class_name, var_type, getter_var_names, setter_var_names, import_lines, lines, blocks) ==
  LET of_class == class_name # None /\ class_name # <<>>
      module_or_class_name == IF of_class THEN class_name ELSE module_name
      e == VariableBlocksFrom(
             alias_map, IF of_class THEN "class" ELSE "module",
             module_or_class_name, var_type, <<>>, <<>>, module_name,
             getter_var_names, setter_var_names, 1, blocks)
  IN  EndedWith(e.outcome,
                VariableImports(import_lines, setter_var_names),
                VariableLines(lines, IF of_class THEN "Class" ELSE "Module",
                              module_or_class_name, var_type, getter_var_names,
                              setter_var_names, <<>>, <<>>),
                e.blocks)

\* lines 461-465: the tooltips, members[var_name].__doc__ for each name of
\* names that passes keep
TooltipsOf(names, docs, keep) ==
  LET kept == SelectSeq(names, LAMBDA n : InList(n, keep))
  IN  [k \in 1 .. Len(kept) |-> docs[kept[k]]]

\* generateBlocksForInstanceVariables, lines 439-499; docs is __doc__ of
\* each member of members
generateBlocksForInstanceVariables(alias_map, cls, var_type, getter_var_names, setter_var_names, docs, import_lines, lines, blocks) ==
  LET class_name == getClassName(cls)
      e == VariableBlocksFrom(
             alias_map, "instance", class_name, var_type,
             getSelfArgName(cls), class_name, <<>>,
             getter_var_names, setter_var_names, 1, blocks)
  IN  EndedWith(e.outcome,
                VariableImports(import_lines, setter_var_names),
                VariableLines(lines, "Instance", class_name, var_type,
                              getter_var_names, setter_var_names,
                              TooltipsOf(getter_var_names, docs, getter_var_names),
                              TooltipsOf(getter_var_names, docs, setter_var_names)),
                e.blocks)

\* lines 647-650: enum_tooltip is replaced by value.__doc__ as long as it is
\* not a text with characters
RECURSIVE EnumTooltipFrom(_, _, _)
EnumTooltipFrom(values, i, enum_tooltip) ==
  IF i > Len(values) THEN enum_tooltip
  ELSE EnumTooltipFrom(values, i + 1,
                       IF enum_tooltip = <<>> \/ enum_tooltip = None
                       THEN values[i].doc ELSE enum_tooltip)

\* lines 660-667: one block for each value name
RECURSIVE EnumBlocksFrom(_, _, _, _, _)
EnumBlocksFrom(enum_class_name, import_module, enum_values, i, blocks) ==
  IF i > Len(enum_values) THEN blocks
  ELSE EnumBlocksFrom(
         enum_class_name, import_module, enum_values, i + 1,
         Append(blocks,
                generateEnumValueBlock(<<"ENUM_TYPE", "ENUM_VALUE">>,
                                       <<enum_class_name, enum_values[i]>>,
                                       enum_class_name, import_module)))

\* the mutant of generateBlocksForEnum: the blocks are put in front
generateBlocksForEnum_inFront(enum_cls, values, import_lines, lines, blocks) ==
  EndedWith("returned", import_lines, lines,
            EnumBlocksFrom(getClassName(enum_cls), getModuleName(enum_cls.module),
                           [k \in 1 .. Len(values) |-> values[k].key], 1, <<>>)
            \o blocks)

\* generateBlocksForEnum, lines 636-667; values is what
\* inspect.getmembers(enum_cls, fnIsEnumValue) returns, [key, doc] each
generateBlocksForEnum(enum_cls, values, import_lines, lines, blocks) ==
  LET enum_class_name == getClassName(enum_cls)
      enum_values     == SortedTexts({values[k].key : k \in 1 .. Len(values)})
      enum_tooltip    == EnumTooltipFrom(values, 1, <<>>)
  IN  EndedWith("returned",
                import_lines \cup {ImportPythonEnum},
                Append(lines,
                       InitializeLine("pythonEnum.initializeEnum", enum_class_name,
                                      <<>>, enum_values, <<enum_tooltip>>)),
                EnumBlocksFrom(enum_class_name, getModuleName(enum_cls.module),
                               enum_values, 1, blocks))

-----------------------------------------------------------------------------
(* generate_blocks.py: the blocks of one module or class                   *)

\* A variable member is [key, var_type, object, doc]: object is the value
\* inspect.getmembers pairs with key.
\* Lines 72, 161 and 188, 80, 169 and 197: the predicate each loop tests
IsReadable(parent, phase, member) ==
  CASE phase = "instance_variables" ->
         isInstanceVariableReadable(parent, member.key, member.object)
    [] parent.kind = "module" ->
         isModuleVariableReadable(parent, member.key, member.object)
    [] OTHER -> isClassVariableReadable(parent, member.key, member.object)

IsWritable(parent, phase, member) ==
  CASE phase = "instance_variables" ->
         isInstanceVariableWritable(parent, member.key, member.object)
    [] parent.kind = "module" ->
         isModuleVariableWritable(parent, member.key, member.object)
    [] OTHER -> isClassVariableWritable(parent, member.key, member.object)

\* Lines 71-85, 160-174 and 187-202: the types of the readable members, in
\* the order the first loop inserts them into dict_type_to_getter_var_names
RECURSIVE TypesInOrder(_, _, _, _, _)
TypesInOrder(parent, phase, variables, i, types) ==
  IF i > Len(variables) THEN types
  ELSE TypesInOrder(parent, phase, variables, i + 1,
                    IF /\ IsReadable(parent, phase, variables[i])
                       /\ ~InList(variables[i].var_type, types)
                    THEN Append(types, variables[i].var_type) ELSE types)

\* Lines 71-93, 160-182 and 187-210: one group for each type, with the sorted
\* getter names and the sorted setter names the generator is called with.
\* A name enters the setter list only in the iteration that has just entered
\* it into the getter list of the same type.
VariableGroups(parent, phase, variables) ==
  LET types == TypesInOrder(parent, phase, variables, 1, <<>>)
      of(t) == {k \in 1 .. Len(variables) :
                  IsReadable(parent, phase, variables[k]) /\ variables[k].var_type = t}
  IN  [g \in 1 .. Len(types) |->
         [var_type |-> types[g],
          getter_var_names |-> SortedTexts({variables[k].key : k \in of(types[g])}),
          setter_var_names |->
            SortedTexts({variables[k].key :
                           k \in {h \in of(types[g]) :
                                    IsWritable(parent, phase, variables[h])}})]]

\* members[key].__doc__ for the members of a class
DocsOf(variables) ==
  [n \in {variables[k].key : k \in 1 .. Len(variables)} |->
     (CHOOSE v \in {variables[k] : k \in 1 .. Len(variables)} : v.key = n).doc]

\* the loops of _generateBlocksForModule, lines 68-105, and of
\* _generateBlocksForClass, lines 157-231, in the order of the source
ModulePhases == <<"variables", "functions", "enums">>
ClassPhases ==
  <<"variables", "instance_variables", "constructors", "functions", "enums">>
PhasesOf(cat) == IF cat.owner = "module" THEN ModulePhases ELSE ClassPhases

\* the module or the class whose members the loops read
ParentOf(cat) ==
  IF cat.owner = "module"
  THEN [kind |-> "module", module |-> cat.module, name |-> cat.module, enum |-> FALSE]
  ELSE [kind |-> "class", module |-> cat.cls.module, name |-> cat.cls.name,
        enum |-> cat.owner = "enum"]

\* the generator calls one loop makes for the members of cat: what the
\* filter of the loop lets through
CallsOf(cat, phase) ==
  CASE phase = "variables" ->
         VariableGroups(ParentOf(cat), phase, cat.variables)
    [] phase = "instance_variables" ->
         VariableGroups(ParentOf(cat), phase, cat.properties)
    [] phase = "constructors" ->
         SelectSeq(cat.routines, LAMBDA mem : mem.name = T_init)
    [] phase = "functions" ->
         SelectSeq(cat.routines, LAMBDA mem : ~StartsWith(mem.key, <<"_">>))
    [] phase = "enums" ->
         IF cat.owner = "module" THEN cat.enums
         ELSE SelectSeq(cat.enums,
                        LAMBDA e : StartsWith(getClassName(e.cls),
                                              getClassName(cat.cls)))

\* the next generator call at or after call i of loop p: p is one more than
\* the number of loops when no call is left
RECURSIVE NextCall(_, _, _)
NextCall(cat, p, i) ==
  IF p > Len(PhasesOf(cat)) THEN <<p, 1>>
  ELSE IF i <= Len(CallsOf(cat, PhasesOf(cat)[p])) THEN <<p, i>>
  ELSE NextCall(cat, p + 1, 1)

\* generateInitializeFunction, lines 669-675: the lines of the function body
generateInitializeFunction(lines) ==
  [code |-> lines, function_name |-> <<"i","n","i","t","i","a","l","i","z","e">>]

ImportCategory == "import {Category} from \"../../toolbox/items\";"

\* the four import lines in ascending order
ImportLineOrder ==
  <<ImportGetPythonVariable, ImportPythonEnum, ImportSetPythonVariable,
    ImportCategory>>

\* sorted(import_lines_set), line 120
SortedImportLines(import_lines) ==
  SelectSeq(ImportLineOrder, LAMBDA l : l \in import_lines)

\* `for import_line in import_lines_set`, line 245: an order the set may be
\* iterated in
IterationOrders(import_lines) ==
  {q \in [1 .. Cardinality(import_lines) -> import_lines] :
     \A i, j \in DOMAIN q : i # j => q[i] # q[j]}

\* generateGetToolboxCategoryFunction, lines 677-712
generateGetToolboxCategoryFunction(category_name, blocks) ==
  [visible_category_name |-> SliceFrom(category_name, RFind(category_name, <<".">>) + 1),
   contents |-> blocks,
   function_name |-> <<"g","e","t","T","o","o","l","b","o","x","C","a","t","e","g","o","r","y">>]

-----------------------------------------------------------------------------
(* The toolbox file: generate_blocks.py, _buildCategoryTree,               *)
(* _organizeToolbox and _writeToolboxFile                                  *)

\* text.split(sep)
RECURSIVE Split(_, _)
Split(text, sep) ==
  LET at == Find(text, sep, 0)
  IN  IF at = -1 THEN <<text>>
      ELSE <<Slice(text, 0, at)>> \o Split(SliceFrom(text, at + Len(sep)), sep)

\* text.replace(old, new)
RECURSIVE Replace(_, _, _)
Replace(text, old, new) ==
  LET at == Find(text, old, 0)
  IN  IF at = -1 THEN text
      ELSE Slice(text, 0, at) \o new \o
           Replace(SliceFrom(text, at + Len(old)), old, new)

\* lines 299-303, the inner loop: walk down from tree along the parts of one
\* key, adding an empty dict for each part that is not there yet
RECURSIVE InsertParts(_, _)
InsertParts(tree, parts) ==
  IF parts = <<>> THEN tree
  ELSE LET part  == Head(parts)
           below == IF part \in DOMAIN tree THEN tree[part] ELSE EmptyDict
       IN  [p \in DOMAIN tree \cup {part} |->
              IF p = part THEN InsertParts(below, Tail(parts)) ELSE tree[p]]

\* lines 298-303, the outer loop over the keys
RECURSIVE BuildFrom(_, _, _)
BuildFrom(keys, i, trunk) ==
  IF i > Len(keys) THEN trunk
  ELSE BuildFrom(keys, i + 1, InsertParts(trunk, Split(keys[i], <<".">>)))

\* _buildCategoryTree, lines 296-304
_buildCategoryTree(keys) == BuildFrom(keys, 1, EmptyDict)

\* _organizeToolbox, lines 307-329.  The returned string is kept as the
\* sequence of the pieces the function appends to it:
\*   "call"          f'    {spaces}{ts_module}.{function_name}(['
\*   "category"      f'    {spaces}{{ kind: "category", name: "{part}", contents: ['
\*   "newline"       '\n' before the nested result r, when r is not empty
\*   "indent"        f'    {spaces}' after r
\*   "end_call"      ']),\n'
\*   "end_category"  ']},\n'
\* function_names is the dict as a function from key to function name.
RECURSIVE _organizeToolbox(_, _, _, _)
RECURSIVE OrganizeParts(_, _, _, _, _, _)
OrganizeParts(parts, i, parent, tree, spaces, function_names) ==
  IF i > Len(parts) THEN <<>>
  ELSE LET part      == parts[i]
           key       == IF parent # <<>> THEN parent \o <<".">> \o part ELSE part
           generated == key \in DOMAIN function_names
           ts_module == Replace(key, <<".">>, <<"_">>)
           open      == IF generated
                        THEN [piece |-> "call", spaces |-> spaces,
                              ts_module |-> ts_module,
                              function_name |-> function_names[key]]
                        ELSE [piece |-> "category", spaces |-> spaces,
                              name |-> part]
           r         == _organizeToolbox(key, tree[part], spaces \o <<" ", " ">>,
                                         function_names)
           inner     == IF r # <<>>
                        THEN <<[piece |-> "newline"]>> \o r \o
                             <<[piece |-> "indent", spaces |-> spaces]>>
                        ELSE <<>>
           close     == IF generated THEN [piece |-> "end_call"]
                        ELSE [piece |-> "end_category"]
       IN  <<open>> \o inner \o <<close>> \o
           OrganizeParts(parts, i + 1, parent, tree, spaces, function_names)

_organizeToolbox(parent, tree, spaces, function_names) ==
  OrganizeParts(SortedTexts(DOMAIN tree), 1, parent, tree, spaces, function_names)

\* the characters one piece of the toolbox string stands for
PieceText(p) ==
  IF p.piece = "call"
  THEN <<" "," "," "," ">> \o p.spaces \o p.ts_module \o <<".">> \o p.function_name \o <<"(","[">>
  ELSE IF p.piece = "category"
  THEN <<" "," "," "," ">> \o p.spaces \o <<"{"," ","k","i","n","d",":"," ","\"","c","a","t","e","g","o","r","y","\"",","," ","n","a","m","e",":"," ","\"">> \o p.name \o
       <<"\"",","," ","c","o","n","t","e","n","t","s",":"," ","[">>
  ELSE IF p.piece = "newline" THEN <<"\n">>
  ELSE IF p.piece = "indent" THEN <<" "," "," "," ">> \o p.spaces
  ELSE IF p.piece = "end_call" THEN <<"]",")",",","\n">>
  ELSE <<"]","}",",","\n">>

\* the toolbox string
RECURSIVE ToolboxText(_)
ToolboxText(pieces) ==
  IF pieces = <<>> THEN <<>>
  ELSE PieceText(Head(pieces)) \o ToolboxText(Tail(pieces))

\* lines 337-343: one import line for each key of ts_file_names, sorted
RECURSIVE ImportLines(_, _, _)
ImportLines(keys, i, file_names) ==
  IF i > Len(keys) THEN <<>>
  ELSE LET ts_file_name == file_names[keys[i]]
           ts_file_name_without_suffix ==
             Slice(ts_file_name, 0, RFind(ts_file_name, <<".">>))
           ts_module == Replace(keys[i], <<".">>, <<"_">>)
       IN  <<"i","m","p","o","r","t"," ","*"," ","a","s"," ">> \o ts_module \o <<" ","f","r","o","m"," ","'",".",".","/",".",".","/","b","l","o","c","k","s","/","g","e","n","e","r","a","t","e","d","/">> \o
           ts_file_name_without_suffix \o <<"'",";","\n">> \o
           ImportLines(keys, i + 1, file_names)

\* the keys of a dict kept as a sequence of [key, function_name], in
\* insertion order, and the dict as a function
DictKeys(d) == [i \in 1 .. Len(d) |-> d[i].key]
DictMap(d) ==
  [k \in {d[i].key : i \in 1 .. Len(d)} |->
     (CHOOSE e \in {d[i] : i \in 1 .. Len(d)} : e.key = k).function_name]

-----------------------------------------------------------------------------
(* Inputs of the signature parser                                          *)

MaxParams == 2

NoSig == [name |-> <<>>, params |-> <<>>, returnType |-> <<>>]
NoResult == [status |-> "none", function_name |-> <<>>, arg_names |-> <<>>,
             arg_types |-> <<>>, arg_default_values |-> <<>>,
             return_type |-> <<>>]

T_move == <<"m","o","v","e">>
T_f == <<"f">>
T_speed == <<"s","p","e","e","d">>
T_heading == <<"h","e","a","d","i","n","g">>
T_float == <<"f","l","o","a","t">>
T_int == <<"i","n","t">>
T_str == <<"s","t","r">>
T_bool == <<"b","o","o","l">>
T_None == <<"N","o","n","e">>
T_tupleIntStr == <<"t","u","p","l","e","[","i","n","t",","," ","s","t","r","]">>
T_dictStrList == <<"d","i","c","t","[","s","t","r",","," ","l","i","s","t","[","(","i","n","t",","," ","i","n","t",")","]","]">>
T_zero == <<"0",".","0">>
T_pair == <<"(","1",","," ","2",")">>
T_quoted == <<"\"","x"," ","y","\"">>

FunctionNames == {T_move, T_f}
ArgNames == {T_speed, T_heading}
ArgTypes == {T_float, T_tupleIntStr, T_dictStrList}
ArgDefaults == {None, T_zero, T_pair, T_quoted}
ReturnTypes == {T_None, T_tupleIntStr}

Params == [argName : ArgNames, type : ArgTypes, default : ArgDefaults]

SeqsUpTo(S, n) == UNION {[1 .. k -> S] : k \in 0 .. n}

Signatures ==
  [name : FunctionNames, params : SeqsUpTo(Params, MaxParams),
   returnType : ReturnTypes]

\* `argName: type` or `argName: type = default`
FormatParam(p) ==
  p.argName \o <<":", " ">> \o p.type \o
  (IF p.default = None THEN <<>> ELSE <<" ", "=", " ">> \o p.default)

RECURSIVE JoinTexts(_, _)
JoinTexts(texts, sep) ==
  IF Len(texts) = 0 THEN <<>>
  ELSE IF Len(texts) = 1 THEN texts[1]
  ELSE texts[1] \o sep \o JoinTexts(Tail(texts), sep)

\* `name(p1, p2, ...) -> returnType`
FormatSignature(sig) ==
  sig.name \o <<"(">> \o
  JoinTexts([i \in 1 .. Len(sig.params) |-> FormatParam(sig.params[i])],
            <<",", " ">>) \o
  <<")", " ", "-", ">", " ">> \o sig.returnType

\* Lines put together from parameter items, a separator and the text around
\* the parameter list, most of them outside the grammar.
RawItems ==
  {<<"a",":"," ","i","n","t">>, <<"a">>, <<"a","b">>, <<"a",":","i","n","t">>, <<"a",":"," ","i","n","t"," ","="," ","1">>, <<"a",":"," ","i","n","t","=","1">>, <<"*","a","r","g","s">>}
GoodItems == {<<"a",":"," ","i","n","t">>, <<"a",":"," ","i","n","t"," ","="," ","1">>}
VariadicItem == <<"*","a","r","g","s">>
RawSeparators == {<<","," ">>, <<",">>, <<" ">>}
RawHeads == {<<"f","(">>, <<"(">>, <<"f"," ">>}
RawTails == {<<")"," ","-",">"," ","N","o","n","e">>, <<")">>, <<")"," ","-",">","N","o","n","e">>}

RawLines ==
  [head : RawHeads, items : SeqsUpTo(RawItems, MaxParams),
   sep : RawSeparators, tail : RawTails]

RawText(raw) == raw.head \o JoinTexts(raw.items, raw.sep) \o raw.tail

\* The grammar of the specification: name(params) -> returnType, params a
\* ", "-separated list of `name: type` or `name: type = default` items with
\* an optional trailing *-prefixed variadic parameter.
RawGrammatical(raw) ==
  /\ raw.head = <<"f","(">>
  /\ raw.tail = <<")"," ","-",">"," ","N","o","n","e">>
  /\ Len(raw.items) > 1 => raw.sep = <<","," ">>
  /\ \A i \in 1 .. Len(raw.items) :
       \/ raw.items[i] \in GoodItems
       \/ raw.items[i] = VariadicItem /\ i = Len(raw.items)

SigStart ==
  /\ sigPc = "start"
  /\ sigOut = NoResult
  /\ \/ /\ sigIn \in Signatures
        /\ line = FormatSignature(sigIn)
        /\ grammatical = TRUE
     \/ /\ sigIn = NoSig
        /\ \E raw \in RawLines :
             /\ line = RawText(raw)
             /\ grammatical = RawGrammatical(raw)

\* a call of processSignature(line)
ProcessSignature ==
  /\ sigPc = "start"
  /\ sigOut' = processSignature(line)
  /\ sigPc' = "parsed"
  /\ UNCHANGED <<sigIn, line, grammatical>>
  /\ UNCHANGED <<docVars, genVars, walkVars, resVars, blkVars, treeVars, catVars, tokVars, exVars>>

SigNext == ProcessSignature

\* the parser is not in use
SigIdle ==
  /\ sigIn = NoSig /\ line = <<>> /\ grammatical = FALSE
  /\ sigPc = "idle" /\ sigOut = NoResult

\* C1: a signature formatted as `name(p1, p2, ...) -> returnType` parses
\* back to exactly its name, its argument names, types and defaults (None
\* where absent) in order, and its return type.
C1_RoundTrip ==
  (sigPc = "parsed" /\ sigIn # NoSig) =>
    sigOut = [status             |-> "ok",
              function_name      |-> sigIn.name,
              arg_names          |-> [i \in 1 .. Len(sigIn.params) |->
                                        sigIn.params[i].argName],
              arg_types          |-> [i \in 1 .. Len(sigIn.params) |->
                                        sigIn.params[i].type],
              arg_default_values |-> [i \in 1 .. Len(sigIn.params) |->
                                        sigIn.params[i].default],
              return_type        |-> sigIn.returnType]

\* C1 witness: `move(speed: float, heading: float = 0.0) -> None` was parsed
\* to ('move', ['speed','heading'], ['float','float'], [None,'0.0'], 'None').
C1_Witness ==
  /\ sigPc = "parsed"
  /\ line = <<"m","o","v","e","(","s","p","e","e","d",":"," ","f","l","o","a","t",","," ","h","e","a","d","i","n","g",":"," ","f","l","o","a","t"," ","="," ","0",".","0",")"," ","-",">"," ","N","o","n","e">>
  /\ sigOut.function_name = T_move
  /\ sigOut.arg_names = <<T_speed, T_heading>>
  /\ sigOut.arg_types = <<T_float, T_float>>
  /\ sigOut.arg_default_values = <<None, T_zero>>
  /\ sigOut.return_type = T_None

\* C2: processSignature raises for every line outside the grammar; it
\* returns no signature for a parameter list that violates the grammar.
C2_RaisesOutsideGrammar ==
  (sigPc = "parsed" /\ ~grammatical) => sigOut.status = "raises"

-----------------------------------------------------------------------------
(* Inputs of the doc splitter                                              *)

MaxSections == 3
\* section numbers run one past the number of sections, so that a doc can
\* skip a number
MaxNumber == MaxSections + 1

T_g == <<"g">>
T_Text == <<"T","e","x","t">>

\* The signature line of the k-th section of a doc, and of a plain doc
SigLineOf(k) == <<"f","(","a">> \o StrNat(k) \o <<":"," ","i","n","t",")"," ","-",">"," ","N","o","n","e">>

\* What follows a signature line: nothing, a newline, or a comment
RestKinds == {"none", "newline", "comment"}
RestText(kind, k) ==
  CASE kind = "none"    -> <<>>
    [] kind = "newline" -> <<"\n">>
    [] kind = "comment" -> <<"\n","\n"," "," ">> \o T_Text \o StrNat(k) \o <<".","\n">>

\* The comment that belongs to a signature line followed by RestText(kind, k)
CommentOf(kind, k) ==
  IF kind = "comment" THEN T_Text \o StrNat(k) \o <<".">> ELSE <<>>

ValidFirstLines ==
  {SigLineOf(0), <<"f","(",")"," ","-",">"," ","N">>,
   <<"f","(","a",":"," ","A"," ","="," ","<","A"," ","o","b","j","e","c","t"," ","a","t"," ","0","x","7","f","0","0","0","0","0","a","b",">",")"," ","-",">"," ","N","o","n","e">>}
InvalidFirstLines == {<<>>, T_Text, <<"f","(","a",":"," ","i","n","t",")">>, <<"f","(","a",":"," ","i","n","t",")"," ","-",">">>}

\* docIn: kind is "absent" (no doc), "plain" (first line and what follows)
\* or "overloaded" (the overload header and numbered sections: nums are the
\* section numbers in doc order, every section but the last is followed by
\* RestText(rest, k), the last one by RestText(lastRest, k)).
DocInputs ==
  [kind : {"absent"}, first : {<<>>}, nums : {<<>>}, rest : {"none"},
   lastRest : {"none"}]
  \cup
  [kind : {"plain"}, first : ValidFirstLines \cup InvalidFirstLines,
   nums : {<<>>}, rest : {"none"}, lastRest : RestKinds]
  \cup
  [kind : {"overloaded"}, first : {<<>>},
   nums : SeqsUpTo(1 .. MaxNumber, MaxSections),
   rest : {"none", "comment"}, lastRest : RestKinds]

RestKindAt(d, k) == IF k = Len(d.nums) THEN d.lastRest ELSE d.rest

SectionText(d, k) ==
  SectionMarker(d.nums[k]) \o SigLineOf(k) \o RestText(RestKindAt(d, k), k)

RECURSIVE SectionsText(_, _)
SectionsText(d, k) ==
  IF k > Len(d.nums) THEN <<>> ELSE SectionText(d, k) \o SectionsText(d, k + 1)

\* `f(*args, **kwargs)\nOverloaded function.`; the blank line that ends the
\* header is the start of the first section's marker
HeaderLines == <<"f","(","*","a","r","g","s",","," ","*","*","k","w","a","r","g","s",")","\n","O","v","e","r","l","o","a","d","e","d"," ","f","u","n","c","t","i","o","n",".">>

DocText(d) ==
  CASE d.kind = "absent"     -> None
    [] d.kind = "plain"      -> d.first \o RestText(d.lastRest, 0)
    [] d.kind = "overloaded" ->
         HeaderLines \o
         (IF Len(d.nums) = 0 THEN <<"\n","\n">> ELSE SectionsText(d, 1))

NoDocResult == [status |-> "none", signatures |-> <<>>, comments |-> <<>>]

DocStart ==
  /\ docPc = "start"
  /\ docOut = NoDocResult
  /\ docIn \in DocInputs
  /\ \E name \in {T_f, T_g} : routine = [name |-> name, doc |-> DocText(docIn)]

\* a call of processFunctionDoc(routine)
ProcessFunctionDoc ==
  /\ docPc = "start"
  /\ docOut' = processFunctionDoc(routine)
  /\ docPc' = "done"
  /\ UNCHANGED <<docIn, routine>>
  /\ UNCHANGED <<sigVars, genVars, walkVars, resVars, blkVars, treeVars, catVars, tokVars, exVars>>

DocNext == ProcessFunctionDoc

\* the doc splitter is not in use
DocIdle ==
  /\ docIn = [kind |-> "absent", first |-> <<>>, nums |-> <<>>,
              rest |-> "none", lastRest |-> "none"]
  /\ routine = [name |-> <<>>, doc |-> None]
  /\ docPc = "idle" /\ docOut = NoDocResult


-----------------------------------------------------------------------------
(* Inputs of the function-block generators                                 *)

MaxCalls == 2

T_m == <<"m">>
T_other == <<"o","t","h","e","r">>

\* The signature lines a doc is put together from, for a member named n
SigKinds ==
  {"static", "instance", "inherited", "foreignself", "noparams", "mismatch",
   "garbage", "diverging", "text"}
SigLineText(kind, n) ==
  CASE kind = "static"      -> n \o <<"(","x",":"," ","i","n","t"," ","="," ","1",")"," ","-",">"," ","N","o","n","e">>
    [] kind = "instance"    -> n \o <<"(","s","e","l","f",":"," ","h","a","l",".","_","w","p","i","H","a","l",".","A",","," ","b",":"," ","h","a","l",".","_","w","p","i","H","a","l",".","B",")"," ","-",">"," ","h","a","l",".","_","w","p","i","H","a","l",".","B">>
    [] kind = "inherited"   -> n \o <<"(","s","e","l","f",":"," ","h","a","l",".","_","w","p","i","H","a","l",".","B",")"," ","-",">"," ","N","o","n","e">>
    [] kind = "foreignself" -> n \o <<"(","s","e","l","f",":"," ","o","b","j","e","c","t",")"," ","-",">"," ","s","t","r">>
    [] kind = "noparams"    -> n \o <<"(",")"," ","-",">"," ","N","o","n","e">>
    [] kind = "mismatch"    -> T_other \o <<"(","x",":"," ","i","n","t"," ","="," ","1",")"," ","-",">"," ","N","o","n","e">>
    [] kind = "garbage"     -> n \o <<"(","x",":"," ","i","n","t",")">>
    [] kind = "diverging"   -> n \o <<"(","a",","," ","b",")"," ","-",">"," ","N","o","n","e">>
    [] kind = "text"        -> T_Text

\* the kinds whose line processSignature parses to a signature named n
ParseableKinds == {"static", "instance", "inherited", "foreignself", "noparams"}

\* the comment after the k-th signature line of a doc
CommentText(k) == T_Text \o StrNat(k) \o <<".">>

\* A member is [key, name, kind, sigs]: the name it is bound to, the
\* routine's __name__, and its doc: "absent", "empty", "plain" (one line of
\* sigs[1] and a comment) or "overloaded" (the header and one numbered
\* section, a line and a comment, for each of sigs).
OverloadKinds == {"static", "instance", "mismatch", "foreignself", "garbage"}

MembersNamed(n, plainKinds, overloadKinds) ==
  [key : {n}, name : {n}, kind : {"absent", "empty"}, sigs : {<<>>}]
  \cup
  [key : {n}, name : {n}, kind : {"plain"}, sigs : [1 .. 1 -> plainKinds]]
  \cup
  [key : {n}, name : {n}, kind : {"overloaded"}, sigs : [1 .. 2 -> overloadKinds]]

ModuleMembers == MembersNamed(T_f, SigKinds, OverloadKinds)
ClassMembers ==
  MembersNamed(T_m, SigKinds, OverloadKinds)
  \cup
  [key : {T_init}, name : {T_init}, kind : {"plain"},
   sigs : [1 .. 1 -> {"instance", "inherited", "static", "noparams"}]]

RECURSIVE MemberSections(_, _)
MemberSections(mem, k) ==
  IF k > Len(mem.sigs) THEN <<>>
  ELSE SectionMarker(k) \o SigLineText(mem.sigs[k], mem.name) \o
       <<"\n","\n">> \o CommentText(k) \o <<"\n">> \o MemberSections(mem, k + 1)

MemberDoc(mem) ==
  CASE mem.kind = "absent"     -> None
    [] mem.kind = "empty"      -> <<>>
    [] mem.kind = "plain"      ->
         SigLineText(mem.sigs[1], mem.name) \o <<"\n","\n">> \o CommentText(1) \o <<"\n">>
    [] mem.kind = "overloaded" ->
         mem.name \o <<"(","*","a","r","g","s",","," ","*","*","k","w","a","r","g","s",")","\n","O","v","e","r","l","o","a","d","e","d"," ","f","u","n","c","t","i","o","n",".">> \o
         MemberSections(mem, 1)

\* the routine bound to the member
FunctionOf(mem) == [name |-> mem.name, doc |-> MemberDoc(mem)]

\* the module and the class whose members are generated
T_halModule == <<"h","a","l",".","_","w","p","i","H","a","l">>

AliasMaps == {(<<"h","a","l",".","T">> :> <<"h","a","l",".","A">>)}

NoMember == [key |-> <<>>, name |-> <<>>, kind |-> "absent", sigs |-> <<>>]
NoCall == [member |-> NoMember, blocks |-> <<>>, stderr |-> <<>>,
           outcome |-> "none"]

GenStart ==
  /\ owner \in {"module", "class"}
  /\ aliases \in AliasMaps
  /\ toolbox_blocks = <<>>
  /\ stderr = <<>>
  /\ genPc = "ready"
  /\ calls = 0
  /\ last = NoCall

\* what a call that ended with `e` leaves in the state
AfterCall(mem, e) ==
  /\ toolbox_blocks' = e.blocks
  /\ stderr' = e.stderr
  /\ genPc' = CASE e.outcome = "returned" -> "ready"
                [] e.outcome = "raised"   -> "aborted"
                [] e.outcome = "diverges" -> "stuck"
  /\ calls' = calls + 1
  /\ last' = [member |-> mem, blocks |-> toolbox_blocks, stderr |-> stderr,
              outcome |-> e.outcome]
  /\ UNCHANGED <<owner, aliases>>
  /\ UNCHANGED <<sigVars, docVars, walkVars, resVars, blkVars, treeVars, catVars, tokVars, exVars>>

\* _generateBlocksForModule calls generateBlockForModuleFunction for the
\* next function of the module
GenerateBlockForModuleFunction ==
  /\ owner = "module" /\ genPc = "ready" /\ calls < MaxCalls
  /\ \E mem \in ModuleMembers, oom \in BOOLEAN :
       AfterCall(mem, generateBlockForModuleFunction(
                        aliases, T_halModule, mem.key, FunctionOf(mem), oom,
                        toolbox_blocks, stderr))

\* _generateBlocksForClass calls generateBlockForClassOrInstanceFunction
\* for the next constructor or method of the class
GenerateBlockForClassOrInstanceFunction ==
  /\ owner = "class" /\ genPc = "ready" /\ calls < MaxCalls
  /\ \E mem \in ClassMembers, oom \in BOOLEAN :
       AfterCall(mem, generateBlockForClassOrInstanceFunction(
                        aliases, ClassA, mem.key, FunctionOf(mem), oom,
                        toolbox_blocks, stderr))

GenNext ==
  \/ GenerateBlockForModuleFunction
  \/ GenerateBlockForClassOrInstanceFunction

\* the generators are not in use
GenIdle ==
  /\ owner = "none" /\ aliases = EmptyDict /\ toolbox_blocks = <<>>
  /\ stderr = <<>> /\ genPc = "idle" /\ calls = 0 /\ last = NoCall

-----------------------------------------------------------------------------
(* Inputs of the walker                                                    *)

MaxRoots == 2

Object(kind, name, module, doc, type, mro) ==
  [kind |-> kind, name |-> name, module |-> module, doc |-> doc,
   type |-> type, mro |-> mro]
ModuleObject(name) == Object("module", name, <<>>, None, "", <<>>)
ClassObject(cls, mro) == Object("class", cls.name, cls.module, None, "", mro)
RoutineObject(name, doc) == Object("routine", name, <<>>, doc, "", <<>>)
ValueObject(type) == Object("value", <<>>, <<>>, None, type, <<>>)
PropertyObject(fget_doc) == Object("property", <<>>, <<>>, fget_doc, "", <<>>)

\* The objects of a pybind11 library package `hal` with its extension
\* module `hal._wpiHal`, and the standard library objects they refer to
Heap ==
  ("hal"         :> ModuleObject(<<"h","a","l">>)) @@
  ("hal._wpiHal" :> ModuleObject(<<"h","a","l",".","_","w","p","i","H","a","l">>)) @@
  ("logging"     :> ModuleObject(<<"l","o","g","g","i","n","g">>)) @@
  ("A" :> ClassObject(ClassA, <<"A", "pybind11_object", "object">>)) @@
  ("B" :> ClassObject(ClassB, <<"B", "A", "pybind11_object", "object">>)) @@
  ("C" :> ClassObject(ClassC, <<"C", "Generic", "A", "pybind11_object", "object">>)) @@
  ("D" :> ClassObject(ClassD, <<"D", "B", "A", "pybind11_object", "object">>)) @@
  ("Generic" :> ClassObject([module |-> <<"t","y","p","i","n","g">>, name |-> <<"G","e","n","e","r","i","c">>],
                            <<"Generic", "object">>)) @@
  ("pybind11_object" :>
     ClassObject([module |-> <<"p","y","b","i","n","d","1","1","_","b","u","i","l","t","i","n","s">>, name |-> <<"p","y","b","i","n","d","1","1","_","o","b","j","e","c","t">>],
                 <<"pybind11_object", "object">>)) @@
  ("object" :> ClassObject([module |-> <<"b","u","i","l","t","i","n","s">>, name |-> <<"o","b","j","e","c","t">>],
                           <<"object">>)) @@
  ("Logger" :> ClassObject(ClassLogger, <<"Logger", "object">>)) @@
  ("int" :> ClassObject([module |-> <<"b","u","i","l","t","i","n","s">>, name |-> <<"i","n","t">>],
                        <<"int", "object">>)) @@
  ("f" :> RoutineObject(<<"f">>, <<"f","(","b",":"," ","h","a","l",".","_","w","p","i","H","a","l",".","B",")"," ","-",">"," ","h","a","l",".","_","w","p","i","H","a","l",".","A","\n","\n","T","e","x","t",".","\n">>)) @@
  ("g" :> RoutineObject(<<"g">>, <<"g","(","x",":"," ","i","n","t",","," ","l",":"," ","l","o","g","g","i","n","g",".","L","o","g","g","e","r",")"," ","-",">"," ","N","o","n","e","\n">>)) @@
  ("h" :> RoutineObject(<<"h">>, <<"h","(","*","a","r","g","s",","," ","*","*","k","w","a","r","g","s",")","\n","O","v","e","r","l","o","a","d","e","d"," ","f","u","n","c","t","i","o","n",".","\n","\n","1","."," ","h","(","c",":"," ","h","a","l",".","_","w","p","i","H","a","l",".","C",")"," ","-",">"," ","N","o","n","e","\n","\n","2","."," ","h","(","b",":"," ","h","a","l",".","_","w","p","i","H","a","l",".","B",")"," ","-",">"," ","N","o","n","e","\n">>)) @@
  ("A.__init__" :> RoutineObject(<<"_","_","i","n","i","t","_","_">>, <<"_","_","i","n","i","t","_","_","(","s","e","l","f",":"," ","h","a","l",".","_","w","p","i","H","a","l",".","A",")"," ","-",">"," ","N","o","n","e","\n">>)) @@
  ("B.__init__" :> RoutineObject(<<"_","_","i","n","i","t","_","_">>, <<"_","_","i","n","i","t","_","_","(","s","e","l","f",":"," ","h","a","l",".","_","w","p","i","H","a","l",".","B",","," ","a",":"," ","h","a","l",".","_","w","p","i","H","a","l",".","A",")"," ","-",">"," ","N","o","n","e","\n">>)) @@
  ("F" :> ClassObject(ClassF, <<"F", "Generic", "E", "pybind11_object", "object">>)) @@
  ("E" :> ClassObject(ClassE, <<"E", "pybind11_object", "object">>)) @@
  ("M" :> ClassObject(ClassM, <<"M", "B", "C", "Generic", "A", "pybind11_object", "object">>)) @@
  ("k" :> RoutineObject(<<"k">>, <<"k","(","*","a","r","g","s",","," ","*","*","k","w","a","r","g","s",")","\n","O","v","e","r","l","o","a","d","e","d"," ","f","u","n","c","t","i","o","n",".","\n","\n","1","."," ","k","(","e",":"," ","w","p","i","m","a","t","h",".","E",")"," ","-",">"," ","N","o","n","e","\n","\n","2","."," ","k","(","b",":"," ","h","a","l",".","_","w","p","i","H","a","l",".","B",")"," ","-",">"," ","N","o","n","e","\n">>)) @@
  ("u" :> RoutineObject(<<"u">>, <<"u","(","x",":"," ","h","a","l",".","M","i","s","s","i","n","g",","," ","e",":"," ","w","p","i","m","a","t","h",".","E",")"," ","-",">"," ","N","o","n","e","\n">>)) @@
  ("v" :> ValueObject("A")) @@
  ("n" :> ValueObject("int")) @@
  ("p" :> PropertyObject(<<"(","s","e","l","f",":"," ","h","a","l",".","_","w","p","i","H","a","l",".","A",")"," ","-",">"," ","h","a","l",".","_","w","p","i","H","a","l",".","B","\n">>)) @@
  ("q" :> PropertyObject(<<"(","s","e","l","f",":"," ","h","a","l",".","_","w","p","i","H","a","l",".","A",")"," ","-",">"," ","l","o","g","g","i","n","g",".","L","o","g","g","e","r","\n">>))

Objects == DOMAIN Heap

\* the objects of the standard library and of pybind11_builtins
BuiltInObjects == {"logging", "Generic", "pybind11_object", "object", "Logger", "int"}

\* The attributes an object may have, each list in the order of
\* inspect.getmembers (sorted by name).  `when` names the choice an optional
\* attribute depends on; "" marks the attributes that are always there.
Attribute(key, member, when) == [key |-> key, member |-> member, when |-> when]
Attributes ==
  [n \in Objects |->
     CASE n = "hal" ->
            <<Attribute(<<"A">>, "A", "reexport"),
              Attribute(<<"A","l","i","a","s">>, "A", "alias"),
              Attribute(<<"L","o","g">>, "Logger", ""),
              Attribute(<<"_">>, "B", ""),
              Attribute(<<"_","w","p","i","H","a","l">>, "hal._wpiHal", ""),
              Attribute(<<"f">>, "f", "function"),
              Attribute(<<"l","o","g","g","i","n","g">>, "logging", ""),
              Attribute(<<"v">>, "v", "")>>
       [] n = "hal._wpiHal" ->
            <<Attribute(<<"A">>, "A", ""),
              Attribute(<<"B">>, "B", ""),
              Attribute(<<"C">>, "C", ""),
              Attribute(<<"D">>, "D", ""),
              Attribute(<<"F">>, "F", ""),
              Attribute(<<"M">>, "M", "multiple"),
              Attribute(<<"g">>, "g", ""),
              Attribute(<<"n">>, "n", "")>>
       [] n = "logging" -> <<Attribute(<<"L","o","g","g","e","r">>, "Logger", "")>>
       [] n = "A" ->
            <<Attribute(<<"_","_","i","n","i","t","_","_">>, "A.__init__", ""),
              Attribute(<<"_","h","i","d","d","e","n">>, "f", ""),
              Attribute(<<"p">>, "p", ""),
              Attribute(<<"q">>, "q", "")>>
       [] n = "B" ->
            <<Attribute(<<"O","u","t","e","r">>, "A", "outer"),
              Attribute(<<"_","_","i","n","i","t","_","_">>, "B.__init__", "")>>
       [] n = "C" ->
            <<Attribute(<<"h">>, "h", ""),
              Attribute(<<"k">>, "k", ""),
              Attribute(<<"u">>, "u", "")>>
       [] n = "D" ->
            <<Attribute(<<"O","u","t","e","r">>, "A", "outer"),
              Attribute(<<"_","_","i","n","i","t","_","_">>, "B.__init__", ""),
              Attribute(<<"p">>, "p", ""),
              Attribute(<<"q">>, "q", "")>>
       [] n = "M" ->
            <<Attribute(<<"O","u","t","e","r">>, "A", "outer"),
              Attribute(<<"_","_","i","n","i","t","_","_">>, "B.__init__", ""),
              Attribute(<<"_","h","i","d","d","e","n">>, "f", ""),
              Attribute(<<"h">>, "h", ""),
              Attribute(<<"k">>, "k", ""),
              Attribute(<<"p">>, "p", ""),
              Attribute(<<"q">>, "q", ""),
              Attribute(<<"u">>, "u", "")>>
       [] OTHER -> <<>>]

Choices == {"reexport", "alias", "function", "outer", "multiple"}

\* inspect.getmembers of every object when the optional attributes `chosen`
\* are there
MembersWith(chosen) ==
  [n \in Objects |->
     SelectSeq(Attributes[n], LAMBDA a : a.when = "" \/ a.when \in chosen)]

RootCandidates == {"hal", "hal._wpiHal", "logging"}
RootLists == UNION {[1 .. k -> RootCandidates] : k \in 1 .. MaxRoots}

WalkStart ==
  /\ members \in {MembersWith(chosen) : chosen \in SUBSET Choices}
  /\ root_modules \in RootLists
  /\ modules = <<>> /\ classes = <<>>
  /\ dict_class_name_to_alias = EmptyDict
  /\ ids = <<>>
  /\ frames = <<>>
  /\ iRoot = 1
  /\ walkPc = "walking"
  /\ getmembers_calls = [n \in Objects |-> 0]
  /\ stopped_at = {}
  /\ dict_class_name_to_allowed_types = EmptyDict

\* The state after a call of _collectModulesAndClasses was entered or has
\* returned: collectModulesAndClasses sorts the classes and returns when
\* the call for its last root module has returned
Walked(id_list, module_list, class_list, stack, i) ==
  /\ ids' = id_list
  /\ modules' = module_list
  /\ frames' = stack
  /\ iRoot' = i
  /\ IF stack = <<>> /\ i > Len(root_modules)
     THEN classes' = SortedByFullName(Heap, class_list) /\ walkPc' = "returned"
     ELSE classes' = class_list /\ walkPc' = "walking"
  /\ UNCHANGED <<members, root_modules, dict_class_name_to_allowed_types>>
  /\ UNCHANGED <<sigVars, docVars, genVars, resVars, blkVars, treeVars, catVars, tokVars, exVars>>

\* _collectModulesAndClasses(object, ...) is called with `stack` the calls
\* in progress: lines 361-374 and inspect.getmembers of line 376
Called_collect(entered, object, stack, i) ==
  /\ Walked(entered.ids, entered.modules, entered.classes,
            IF entered.enters
            THEN Append(stack, [object  |-> object,
                                rest    |-> members[object],
                                pending |-> <<>>])
            ELSE stack,
            i)
  /\ getmembers_calls' =
       IF entered.enters THEN [getmembers_calls EXCEPT ![object] = @ + 1]
       ELSE getmembers_calls
  /\ stopped_at' =
       IF ~entered.enters /\ ~Visited(object, ids) THEN stopped_at \cup {object}
       ELSE stopped_at
  /\ UNCHANGED dict_class_name_to_alias

\* the for loop of collectModulesAndClasses, lines 426-428, calls
\* _collectModulesAndClasses for the next root module
CollectRoot ==
  /\ walkPc = "walking" /\ frames = <<>> /\ iRoot <= Len(root_modules)
  /\ Called_collect(Entered(Heap, root_modules[iRoot], ids, modules, classes),
                    root_modules[iRoot], <<>>, iRoot + 1)

\* the top call in progress, with `rest` and `pending` replaced
TopWith(rest, pending) ==
  [frames EXCEPT ![Len(frames)] = [@ EXCEPT !.rest = rest, !.pending = pending]]

\* the body of the for loop over the members, lines 377-419, up to its
\* first recursive call: the member is passed over, or the alias is noted
\* and the objects to call _collectModulesAndClasses with are found
VisitedMember(top, found) ==
  /\ IF found.status = "diverges"
     THEN walkPc' = "stuck" /\ frames' = frames
     ELSE walkPc' = "walking" /\ frames' = TopWith(Tail(top.rest), found.targets)
  /\ stopped_at' = stopped_at \cup found.stopped
  /\ dict_class_name_to_alias' =
       IF Skipped(Heap, top.object, top.rest[1].key, top.rest[1].member)
       THEN dict_class_name_to_alias
       ELSE AliasesAfter(Heap, top.object, top.rest[1].key, top.rest[1].member,
                         dict_class_name_to_alias)
  /\ UNCHANGED <<members, root_modules, modules, classes, ids, iRoot,
                 getmembers_calls, dict_class_name_to_allowed_types>>
  /\ UNCHANGED <<sigVars, docVars, genVars, resVars, blkVars, treeVars, catVars, tokVars, exVars>>

VisitMember ==
  /\ walkPc = "walking" /\ frames # <<>>
  /\ frames[Len(frames)].pending = <<>>
  /\ frames[Len(frames)].rest # <<>>
  /\ \E oom \in BOOLEAN :
       VisitedMember(
         frames[Len(frames)],
         IF Skipped(Heap, frames[Len(frames)].object,
                    frames[Len(frames)].rest[1].key,
                    frames[Len(frames)].rest[1].member)
         THEN NoTargets
         ELSE MemberTargets(Heap, frames[Len(frames)].rest[1].member, oom))

\* the next recursive call of the for loop's body
CollectMember ==
  /\ walkPc = "walking" /\ frames # <<>>
  /\ frames[Len(frames)].pending # <<>>
  /\ Called_collect(
       Entered(Heap, frames[Len(frames)].pending[1], ids, modules, classes),
       frames[Len(frames)].pending[1],
       TopWith(frames[Len(frames)].rest, Tail(frames[Len(frames)].pending)),
       iRoot)

\* the for loop over the members is done: the call returns
Return ==
  /\ walkPc = "walking" /\ frames # <<>>
  /\ frames[Len(frames)].pending = <<>>
  /\ frames[Len(frames)].rest = <<>>
  /\ Walked(ids, modules, classes, SubSeq(frames, 1, Len(frames) - 1), iRoot)
  /\ UNCHANGED <<dict_class_name_to_alias, getmembers_calls, stopped_at>>

\* BlocksGenerator.__init__, line 121: collectAllowedTypes of the classes
\* that collectModulesAndClasses returned
CollectAllowedTypes ==
  /\ walkPc = "returned"
  /\ dict_class_name_to_allowed_types' = collectAllowedTypes(Heap, classes)
  /\ walkPc' = "constructed"
  /\ UNCHANGED <<members, root_modules, modules, classes,
                 dict_class_name_to_alias, ids, frames, iRoot,
                 getmembers_calls, stopped_at>>
  /\ UNCHANGED <<sigVars, docVars, genVars, resVars, blkVars, treeVars, catVars, tokVars, exVars>>

WalkNext ==
  \/ CollectRoot
  \/ VisitMember
  \/ CollectMember
  \/ Return
  \/ CollectAllowedTypes

\* the walker is not in use
WalkIdle ==
  /\ members = EmptyDict /\ root_modules = <<>>
  /\ modules = <<>> /\ classes = <<>>
  /\ dict_class_name_to_alias = EmptyDict
  /\ ids = <<>> /\ frames = <<>> /\ iRoot = 0
  /\ walkPc = "idle"
  /\ getmembers_calls = EmptyDict /\ stopped_at = {}
  /\ dict_class_name_to_allowed_types = EmptyDict

-----------------------------------------------------------------------------
(* Inputs of varNameForType                                                *)

T_hal_A == <<"h","a","l",".","A">>
T_hal_T == <<"h","a","l",".","T">>
T_hal_U == <<"h","a","l",".","U">>
T_hal_V == <<"h","a","l",".","V">>
T_list_int == <<"l","i","s","t","[","i","n","t","]">>

\* The names an alias map may hold as keys: "module.key" of a class bound
\* under a key that is not its __name__
AliasNames == {T_hal_T, T_hal_U, T_hal_V}

\* Every alias map over these names: a key's alias is the name of the class
\* it is bound to, another alias name or the name of class A
AliasMapsOver(names) ==
  UNION {{f \in [keys -> names \cup {T_hal_A}] : \A k \in keys : f[k] # k} :
           keys \in SUBSET names}

TypeNames == AliasNames \cup {T_hal_A, T_int, T_list_int}

NoResolution == [resolved |-> [status |-> "none", t |-> <<>>],
                 var_name |-> [status |-> "none", name |-> <<>>]]

ResStart ==
  /\ resIn \in [alias_map : AliasMapsOver(AliasNames), t : TypeNames]
  /\ resPc = "start"
  /\ resOut = NoResolution

\* varNameForType(t) is called: `resolved` is t as the while loop of lines
\* 210-211 leaves it
VarNameForType ==
  /\ resPc = "start"
  /\ resOut' = [resolved |-> FollowAliases(resIn.alias_map, resIn.t, {}),
                var_name |-> varNameForType(resIn.alias_map, resIn.t)]
  /\ resPc' = "done"
  /\ UNCHANGED resIn
  /\ UNCHANGED <<sigVars, docVars, genVars, walkVars, blkVars, treeVars, catVars, tokVars, exVars>>

ResNext == VarNameForType

\* varNameForType is not in use
ResIdle ==
  /\ resIn = [alias_map |-> EmptyDict, t |-> <<>>]
  /\ resPc = "idle"
  /\ resOut = NoResolution

-----------------------------------------------------------------------------
(* Inputs of generateFunctionBlock                                         *)

MaxArgs == 2

T_double == <<"d","o","u","b","l","e">>
T_object == <<"o","b","j","e","c","t">>
T_tuple_int_int == <<"t","u","p","l","e","[","i","n","t",","," ","i","n","t","]">>
T_dict_str_int == <<"d","i","c","t","[","s","t","r",","," ","i","n","t","]">>

\* The alias map of the generator: U is an alias of T, T an alias of A
ChainedAliases == (T_hal_U :> T_hal_T) @@ (T_hal_T :> T_hal_A)

\* The type and the default value of an argument, as processSignature
\* returns them: None where the signature gives no default
ArgOf(type, default) == [type |-> type, default |-> default]
ArgKinds ==
  {ArgOf(T_int, None), ArgOf(T_int, <<"1">>), ArgOf(T_int, <<"x">>),
   ArgOf(T_float, <<"1",".","5">>), ArgOf(T_double, <<"1",".","5">>), ArgOf(T_double, <<"x">>),
   ArgOf(T_str, <<"'","a","'">>), ArgOf(T_str, T_None),
   ArgOf(T_bool, <<"T","r","u","e">>), ArgOf(T_bool, <<"m","a","y","b","e">>),
   ArgOf(T_object, <<"x">>),
   ArgOf(T_hal_A, None), ArgOf(T_hal_U, T_None),
   ArgOf(T_list_int, <<"[","]">>), ArgOf(T_tuple_int_int, None),
   ArgOf(T_dict_str_int, <<"{","}">>)}

BlockReturnTypes == {<<>>, T_None, T_int, T_hal_U, T_list_int}

T_blockType == <<"c","a","l","l","_","p","y","t","h","o","n","_","m","o","d","u","l","e","_","f","u","n","c","t","i","o","n">>
FunctionFieldNames == <<<<"M","O","D","U","L","E">>, <<"F","U","N","C">>>>
FunctionFieldValues == <<<<"h","a","l">>, <<"f">>>>
T_Tooltip == <<"T","e","x","t","1",".">>

\* the name of the i-th argument (counted from 0)
ArgName(i) == <<"x">> \o StrNat(i)

NoBlock == [status |-> "none", block |-> EmptyDict, warnings |-> 0]

BlkStart ==
  /\ blkIn \in [alias_map : {ChainedAliases},
               return_type : BlockReturnTypes,
               args : UNION {[1 .. n -> ArgKinds] : n \in 0 .. MaxArgs}]
  /\ blkPc = "start"
  /\ blkOut = NoBlock

\* generateFunctionBlock is called for a signature with these arguments
GenerateFunctionBlock ==
  /\ blkPc = "start"
  /\ blkOut' = generateFunctionBlock(
                 blkIn.alias_map, T_blockType, FunctionFieldNames,
                 FunctionFieldValues, T_Tooltip, blkIn.return_type,
                 [i \in 1 .. Len(blkIn.args) |-> ArgName(i - 1)],
                 [i \in 1 .. Len(blkIn.args) |-> blkIn.args[i].type],
                 [i \in 1 .. Len(blkIn.args) |-> blkIn.args[i].default],
                 <<"h","a","l">>)
  /\ blkPc' = "done"
  /\ UNCHANGED blkIn
  /\ UNCHANGED <<sigVars, docVars, genVars, walkVars, resVars, treeVars, catVars, tokVars, exVars>>

BlkNext == GenerateFunctionBlock

\* generateFunctionBlock is not in use
BlkIdle ==
  /\ blkIn = [alias_map |-> EmptyDict, return_type |-> <<>>, args |-> <<>>]
  /\ blkPc = "idle"
  /\ blkOut = NoBlock

-----------------------------------------------------------------------------
(* Inputs of _writeToolboxFile                                             *)

\* how many modules and classes main generated a category for
MaxKeys == 3

T_getToolboxCategory == <<"g","e","t","T","o","o","l","b","o","x","C","a","t","e","g","o","r","y">>

\* The modules and classes main may have generated a category for: modules
\* that are a prefix of other names, a module and a class under the same
\* module, and a class none of whose prefixes is generated.
GeneratedNames ==
  { [key |-> <<"h","a","l">>, kind |-> "module"],
    [key |-> <<"h","a","l",".","s","i","m","u","l","a","t","i","o","n">>, kind |-> "module"],
    [key |-> <<"w","p","i","l","i","b">>, kind |-> "module"],
    [key |-> <<"w","p","i","l","i","b",".","d","r","i","v","e">>, kind |-> "module"],
    [key |-> <<"w","p","i","l","i","b",".","J","o","y","s","t","i","c","k">>, kind |-> "class"],
    [key |-> <<"w","p","i","l","i","b",".","d","r","i","v","e",".","D","i","f","f","e","r","e","n","t","i","a","l","D","r","i","v","e">>, kind |-> "class"],
    [key |-> <<"w","p","i","m","a","t","h",".","g","e","o","m","e","t","r","y",".","P","o","s","e","2","d">>, kind |-> "class"] }

\* lines 128-130 and 254-256: what main stores for one module or class
ToolboxEntry(n) == [key |-> n.key, function_name |-> T_getToolboxCategory]
TsFileName(n) ==
  (IF n.kind = "module" THEN <<"m","o","d","u","l","e","_">> ELSE <<"c","l","a","s","s","_">>) \o n.key \o <<".","t","s">>

\* every order in which up to MaxKeys of the names were generated
GeneratedOrders ==
  UNION { {q \in [1 .. n -> GeneratedNames] :
             \A i, j \in 1 .. n : i # j => q[i] # q[j]} : n \in 0 .. MaxKeys }

TreeStart ==
  /\ \E q \in GeneratedOrders :
       /\ toolbox_function_names = [i \in 1 .. Len(q) |-> ToolboxEntry(q[i])]
       /\ ts_file_names = [k \in {q[i].key : i \in 1 .. Len(q)} |->
                             TsFileName(CHOOSE n \in GeneratedNames : n.key = k)]
  /\ treePc = "start"
  /\ category_tree = EmptyDict
  /\ toolbox = <<>>
  /\ ts_file = <<>>

\* _writeToolboxFile, lines 332-350
WriteToolboxFile ==
  /\ treePc = "start"
  /\ LET tree   == _buildCategoryTree(DictKeys(toolbox_function_names))
         pieces == _organizeToolbox(<<>>, tree, <<>>,
                                    DictMap(toolbox_function_names))
     IN  /\ category_tree' = tree
         /\ toolbox' = pieces
         /\ ts_file' =
              <<"/","/"," ","T","h","i","s"," ","f","i","l","e"," ","w","a","s"," ","g","e","n","e","r","a","t","e","d","."," ","D","o"," ","n","o","t"," ","e","d","i","t","!","\n","\n">> \o
              ImportLines(SortedTexts(DOMAIN ts_file_names), 1, ts_file_names) \o
              <<"\n">> \o
              <<"e","x","p","o","r","t"," ","f","u","n","c","t","i","o","n"," ","g","e","t","T","o","o","l","b","o","x","C","a","t","e","g","o","r","i","e","s","(",")"," ","{","\n">> \o
              <<" "," ","r","e","t","u","r","n"," ","[","\n">> \o
              ToolboxText(pieces) \o
              <<" "," ","]",";","\n">> \o
              <<"}","\n">>
  /\ treePc' = "written"
  /\ UNCHANGED <<toolbox_function_names, ts_file_names>>
  /\ UNCHANGED <<sigVars, docVars, genVars, walkVars, resVars, blkVars, catVars, tokVars, exVars>>

TreeNext == WriteToolboxFile

TreeIdle ==
  /\ toolbox_function_names = <<>>
  /\ ts_file_names = EmptyDict
  /\ treePc = "idle"
  /\ category_tree = EmptyDict
  /\ toolbox = <<>>
  /\ ts_file = <<>>

-----------------------------------------------------------------------------
(* Inputs of _generateBlocksForModule and _generateBlocksForClass          *)

T_hal_wpiHal_B == <<"h","a","l",".","_","w","p","i","H","a","l",".","B">>
T_Text1 == <<"T","e","x","t","1",".">>

VariableMember(key, var_type, object, doc) ==
  [key |-> key, var_type |-> var_type, object |-> object, doc |-> doc]

\* a value of a class, and a property with or without accessors
ValueOf(module, name) ==
  [kind |-> "value", type |-> [module |-> module, name |-> name],
   fget |-> "none", fset |-> "none"]
PropertyWith(fget, fset) ==
  [kind |-> "datadescriptor",
   type |-> [module |-> <<"b","u","i","l","t","i","n","s">>, name |-> <<"p","r","o","p","e","r","t","y">>],
   fget |-> fget, fset |-> fset]
IntValue == ValueOf(<<"b","u","i","l","t","i","n","s">>, <<"i","n","t">>)
FloatValue == ValueOf(<<"b","u","i","l","t","i","n","s">>, <<"f","l","o","a","t">>)

\* The variables of the module or class: none; a constant, an aliased object
\* and a number; a private name, an enum-style constant, a logger and a name
\* that starts with an underscore and a digit
CategoryVariables ==
  { <<>>,
    <<VariableMember(<<"M","A","X">>, T_int, IntValue, None),
      VariableMember(<<"o","r","i","g","i","n">>, T_hal_T, ValueOf(<<"h","a","l">>, <<"T">>), None),
      VariableMember(<<"s","p","e","e","d">>, T_int, IntValue, None)>>,
    <<VariableMember(<<"_","1","s","t">>, T_int, IntValue, None),
      VariableMember(<<"_","h","i","d","d","e","n">>, T_int, IntValue, None),
      VariableMember(<<"k","M","a","x">>, T_float, FloatValue, None),
      VariableMember(<<"l","o","g">>, <<"l","o","g","g","i","n","g",".","L","o","g","g","e","r">>, ValueOf(ClassLogger.module, ClassLogger.name), None)>> }

\* The properties of the class: none; a read-write one, a read-only one and
\* one whose name starts with m_; one whose getter has no parsable signature
\* (var_type None) and has a setter; one such without a setter
CategoryProperties ==
  { <<>>,
    <<VariableMember(<<"m","_","x">>, T_int, PropertyWith("routine", "routine"), None),
      VariableMember(<<"p">>, T_float, PropertyWith("routine", "routine"), T_Text1),
      VariableMember(<<"q">>, T_hal_wpiHal_B, PropertyWith("routine", "none"), T_Text1)>>,
    <<VariableMember(<<"r">>, None, PropertyWith("routine", "routine"), None)>>,
    <<VariableMember(<<"r">>, None, PropertyWith("routine", "none"), None)>> }

RoutineMember(n, kind, sigs) == [key |-> n, name |-> n, kind |-> kind, sigs |-> sigs]

\* the routines of the module, and those of the class
CategoryModuleRoutines ==
  { <<>>,
    <<RoutineMember(T_f, "absent", <<>>)>>,
    <<RoutineMember(T_f, "plain", <<"static">>)>>,
    <<RoutineMember(T_f, "overloaded", <<"static", "instance">>)>> }
CategoryClassRoutines ==
  { <<>>,
    <<RoutineMember(T_init, "plain", <<"instance">>)>>,
    <<RoutineMember(T_init, "plain", <<"instance">>),
      RoutineMember(T_m, "plain", <<"instance">>)>>,
    <<RoutineMember(T_m, "overloaded", <<"static", "instance">>)>> }

\* the enums: one nested in class A, one nested in class B
EnumColor ==
  [cls |-> [module |-> T_halModule, name |-> <<"A",".","C","o","l","o","r">>],
   values |-> <<[key |-> <<"k","B","l","u","e">>, doc |-> None], [key |-> <<"k","R","e","d">>, doc |-> None]>>]
EnumMode ==
  [cls |-> [module |-> T_halModule, name |-> <<"B",".","M","o","d","e">>],
   values |-> <<[key |-> <<"k","O","f","f">>, doc |-> T_Text1]>>]
CategoryEnums == { <<>>, <<EnumColor>>, <<EnumColor, EnumMode>> }

\* the alias maps of the generator: one without a cycle, one with a cycle
CyclicAliases == (T_hal_T :> T_hal_U) @@ (T_hal_U :> T_hal_T)
CategoryAliases == {(T_hal_T :> T_hal_A), CyclicAliases}

Category(own, alias_map, variables, properties, routines, enums) ==
  [owner |-> own, module |-> T_halModule, cls |-> ClassA,
   alias_map |-> alias_map, variables |-> variables,
   properties |-> properties, routines |-> routines, enums |-> enums]

Categories ==
  {Category("module", a, v, <<>>, r, e) :
     a \in CategoryAliases, v \in CategoryVariables,
     r \in CategoryModuleRoutines, e \in CategoryEnums}
  \cup
  {Category("class", a, v[1], v[2], r, e) :
     a \in CategoryAliases, v \in CategoryVariables \X CategoryProperties,
     r \in CategoryClassRoutines, e \in CategoryEnums}
  \cup
  {Category("enum", (T_hal_T :> T_hal_A), <<>>, <<>>, <<>>, <<>>)}

NoFile == [ts_file_name |-> <<>>]

CatStart ==
  /\ catIn \in Categories
  /\ catPc = "generating"
  /\ catPhase = NextCall(catIn, 1, 1)[1]
  /\ catI = NextCall(catIn, 1, 1)[2]
  /\ catBlocks = <<>>
  /\ catImports = {}
  /\ catLines = <<>>
  /\ catErr = <<>>
  /\ catFile = NoFile

\* the loop the next generator call is in, and what it is called for
CatCalls(phase) ==
  /\ catPc = "generating"
  /\ catIn.owner # "enum"
  /\ catPhase <= Len(PhasesOf(catIn))
  /\ PhasesOf(catIn)[catPhase] = phase
CatCall == CallsOf(catIn, PhasesOf(catIn)[catPhase])[catI]

\* what a generator call that ended with e leaves in the state
AfterGenerator(e, blocks, import_lines, lines, messages) ==
  /\ catBlocks' = blocks
  /\ catImports' = import_lines
  /\ catLines' = lines
  /\ catErr' = messages
  /\ catPc' = CASE e.outcome = "returned" -> "generating"
                [] e.outcome = "raised"   -> "aborted"
                [] e.outcome = "diverges" -> "stuck"
  /\ catPhase' = IF e.outcome = "returned"
                 THEN NextCall(catIn, catPhase, catI + 1)[1] ELSE catPhase
  /\ catI' = IF e.outcome = "returned"
             THEN NextCall(catIn, catPhase, catI + 1)[2] ELSE catI
  /\ UNCHANGED <<catIn, catFile>>
  /\ UNCHANGED <<sigVars, docVars, genVars, walkVars, resVars, blkVars, treeVars, tokVars, exVars>>

AfterVariables(e) ==
  AfterGenerator(e, e.blocks, e.import_lines_set, e.initialize_lines, catErr)
AfterFunction(e) ==
  AfterGenerator(e, e.blocks, catImports, catLines, e.stderr)

\* lines 86-93 and 175-182: the call of
\* generateBlocksForModuleOrClassVariables for the next type
VariableBlocksOf(cat, group, import_lines, lines, blocks) ==
  generateBlocksForModuleOrClassVariables(
    cat.alias_map, getModuleName(cat.module),
    IF cat.owner = "class" THEN getClassName(cat.cls) ELSE None,
    group.var_type, group.getter_var_names, group.setter_var_names,
    import_lines, lines, blocks)

CategoryVariableBlocks ==
  /\ CatCalls("variables")
  /\ AfterVariables(VariableBlocksOf(catIn, CatCall, catImports, catLines, catBlocks))

\* lines 203-210: the call of generateBlocksForInstanceVariables for the
\* next type
InstanceVariableBlocksOf(cat, group, import_lines, lines, blocks) ==
  generateBlocksForInstanceVariables(
    cat.alias_map, cat.cls, group.var_type, group.getter_var_names,
    group.setter_var_names, DocsOf(cat.properties), import_lines, lines, blocks)

CategoryInstanceVariableBlocks ==
  /\ CatCalls("instance_variables")
  /\ AfterVariables(InstanceVariableBlocksOf(catIn, CatCall, catImports, catLines, catBlocks))

\* The function-block generator the handler calls for a routine: lines
\* 96-100 for a function of a module, lines 213-217 and 220-224 for a
\* constructor or a function of a class
FunctionBlocksOf(cat, mem, oom, blocks, messages) ==
  IF cat.owner = "module"
  THEN generateBlockForModuleFunction(
         cat.alias_map, cat.module, mem.key, FunctionOf(mem), oom, blocks, messages)
  ELSE generateBlockForClassOrInstanceFunction(
         cat.alias_map, cat.cls, mem.key, FunctionOf(mem), oom, blocks, messages)

\* lines 96-100, 213-217 and 220-224: the call of the function-block
\* generator for the next constructor or function
CategoryFunctionBlocks ==
  /\ CatCalls("constructors") \/ CatCalls("functions")
  /\ \E oom \in BOOLEAN :
       AfterFunction(FunctionBlocksOf(catIn, CatCall, oom, catBlocks, catErr))

\* lines 103-105 and 227-231: the call of generateBlocksForEnum for the
\* next enum
EnumBlocksOf(enum, import_lines, lines, blocks) ==
  generateBlocksForEnum(enum.cls, enum.values, import_lines, lines, blocks)

CategoryEnumBlocks ==
  /\ CatCalls("enums")
  /\ AfterVariables(EnumBlocksOf(CatCall, catImports, catLines, catBlocks))

\* lines 107-130 and 232-256: the two functions are generated, the file is
\* written and its names are registered
WriteCategoryFile ==
  /\ catPc = "generating"
  /\ catIn.owner # "enum"
  /\ catPhase > Len(PhasesOf(catIn))
  /\ LET name == IF catIn.owner = "module" THEN getModuleName(catIn.module)
                 ELSE getClassName(catIn.cls)
         import_lines == catImports \cup {ImportCategory}
     IN  /\ catImports' = import_lines
         /\ \E written \in (IF catIn.owner = "module"
                            THEN {SortedImportLines(import_lines)}
                            ELSE IterationOrders(import_lines)) :
              catFile' =
                [ts_file_name |-> (IF catIn.owner = "module" THEN <<"m","o","d","u","l","e","_">>
                                   ELSE <<"c","l","a","s","s","_">>) \o name \o <<".","t","s">>,
                 import_lines |-> written,
                 initialize |-> generateInitializeFunction(catLines),
                 toolbox |-> generateGetToolboxCategoryFunction(name, catBlocks),
                 registered |-> name]
  /\ catPc' = "written"
  /\ UNCHANGED <<catIn, catPhase, catI, catBlocks, catLines, catErr>>
  /\ UNCHANGED <<sigVars, docVars, genVars, walkVars, resVars, blkVars, treeVars, tokVars, exVars>>

\* lines 149-150: no category is generated for a class that is an enum
SkipEnumClass ==
  /\ catPc = "generating"
  /\ catIn.owner = "enum"
  /\ catPc' = "skipped"
  /\ UNCHANGED <<catIn, catPhase, catI, catBlocks, catImports, catLines,
                 catErr, catFile>>
  /\ UNCHANGED <<sigVars, docVars, genVars, walkVars, resVars, blkVars, treeVars, tokVars, exVars>>

CatNext ==
  \/ CategoryVariableBlocks
  \/ CategoryInstanceVariableBlocks
  \/ CategoryFunctionBlocks
  \/ CategoryEnumBlocks
  \/ WriteCategoryFile
  \/ SkipEnumClass

CatIdle ==
  /\ catIn = Category("none", EmptyDict, <<>>, <<>>, <<>>, <<>>)
  /\ catPc = "idle"
  /\ catPhase = 0
  /\ catI = 0
  /\ catBlocks = <<>>
  /\ catImports = {}
  /\ catLines = <<>>
  /\ catErr = <<>>
  /\ catFile = NoFile

-----------------------------------------------------------------------------
(* Inputs of _findEndOfToken                                               *)

T_callable == <<"C","a","l","l","a","b","l","e","[","[","i","n","t",","," ","s","t","r","]",","," ","N","o","n","e","]">>

\* parameter lists: with nested, unclosed, unopened and crossed brackets,
\* with defaults and without types
TokenTexts ==
  {<<"a",":"," ","C","a","l","l","a","b","l","e","[","[","i","n","t",","," ","s","t","r","]",","," ","N","o","n","e","]",","," ","b",":"," ","i","n","t">>,
   <<"a",":"," ","d","i","c","t","[","s","t","r",","," ","l","i","s","t","[","(","i","n","t",","," ","i","n","t",")","]","]"," ","="," ","{","}",","," ","b",":"," ","s","t","r">>,
   <<"a",":"," ","t","u","p","l","e","[","i","n","t",","," ","s","t","r","]"," ","="," ","(","1",","," ","2",")",","," ","b",":"," ","i","n","t"," ","="," ","3">>,
   <<"a",":"," ","(","i","n","t",","," ","b",":"," ","i","n","t">>,
   <<"a",":"," ","i","n","t","]",","," ","b",":"," ","s","t","r",")"," ","="," ","x">>,
   <<"a",":"," ","[","(","i","n","t","]",","," ","x",")",","," ","y","]"," ","z",","," ","b">>,
   <<"a",":"," ","f","(","x",")","[","y",","," ","z","]"," ","w">>,
   <<"a",","," ","b">>,
   <<>>}

\* the delimiter lists of lines 90 and 96
TokenDelimiters == {{",", " "}, {","}}

\* the line processSignature is given for a parameter list
LineOf(args) == <<"f", "(">> \o args \o <<")", " ", "-", ">", " ">> \o T_None

TokStart ==
  /\ tokText \in TokenTexts
  /\ tokI \in 0 .. Len(tokText)
  /\ tokDelimiters \in TokenDelimiters
  /\ tokPc = "start"
  /\ tokEnd = -1
  /\ tokParsed = NoResult

\* a call of _findEndOfToken, and the call of processSignature for the line
\* with the same parameter list
FindEndOfToken ==
  /\ tokPc = "start"
  /\ tokEnd' = _findEndOfToken(tokText, tokI, tokDelimiters)
  /\ tokParsed' = processSignature(LineOf(tokText))
  /\ tokPc' = "scanned"
  /\ UNCHANGED <<tokText, tokI, tokDelimiters>>
  /\ UNCHANGED <<sigVars, docVars, genVars, walkVars, resVars, blkVars, treeVars, catVars, exVars>>

TokNext == FindEndOfToken

TokIdle ==
  /\ tokText = <<>> /\ tokI = 0 /\ tokDelimiters = {}
  /\ tokPc = "idle" /\ tokEnd = -1 /\ tokParsed = NoResult

-----------------------------------------------------------------------------
(* examine.py: Examine.examine and Examine._examine                        *)

\* The objects of the walker's library with the objects behind the
\* properties, an enum, and routines whose signatures name classes that are
\* no member of a module
ExHeap ==
  Heap @@
  ("G" :> ClassObject(ClassG, <<"G", "pybind11_object", "object">>)) @@
  ("H" :> ClassObject(ClassH, <<"H", "pybind11_object", "object">>)) @@
  ("Mode" :> Object("class", ClassMode.name, ClassMode.module, <<"M","e","m","b","e","r","s",":","\n","\n"," "," ","k","O","f","f">>, "",
                    <<"Mode", "pybind11_object", "object">>)) @@
  ("Mode.__init__" :> RoutineObject(T_init, <<"_","_","i","n","i","t","_","_","(","s","e","l","f",":"," ","h","a","l",".","_","w","p","i","H","a","l",".","M","o","d","e",","," ","v","a","l","u","e",":"," ","i","n","t",")"," ","-",">"," ","N","o","n","e","\n">>)) @@
  ("kOff" :> ValueObject("Mode")) @@
  ("name" :> PropertyObject(<<"n","a","m","e","(","s","e","l","f",":"," ","o","b","j","e","c","t",")"," ","-",">"," ","s","t","r","\n">>)) @@
  ("value" :> PropertyObject(<<"(","a","r","g","0",":"," ","h","a","l",".","_","w","p","i","H","a","l",".","M","o","d","e",")"," ","-",">"," ","i","n","t","\n">>)) @@
  ("name.fget" :> RoutineObject(<<>>, <<"n","a","m","e","(","s","e","l","f",":"," ","o","b","j","e","c","t",")"," ","-",">"," ","s","t","r","\n">>)) @@
  ("value.fget" :> RoutineObject(<<>>, <<"(","a","r","g","0",":"," ","h","a","l",".","_","w","p","i","H","a","l",".","M","o","d","e",")"," ","-",">"," ","i","n","t","\n">>)) @@
  ("p.fget" :> RoutineObject(<<>>, Heap["p"].doc)) @@
  ("q.fget" :> RoutineObject(<<>>, Heap["q"].doc)) @@
  ("None" :> ValueObject("object")) @@
  ("r" :> RoutineObject(<<"r">>, <<"r","(","h",":"," ","w","p","i","m","a","t","h",".","H",")"," ","-",">"," ","N","o","n","e","\n">>)) @@
  ("t" :> RoutineObject(<<"t">>, <<"t","(","s","e","l","f",":"," ","w","p","i","m","a","t","h",".","G",")"," ","-",">"," ","w","p","i","m","a","t","h",".","H","\n">>)) @@
  ("s" :> RoutineObject(<<"s">>, <<"s","(","s","e","l","f",":"," ","w","p","i","m","a","t","h",".","E",")"," ","-",">"," ","w","p","i","m","a","t","h",".","G","\n">>)) @@
  ("w" :> RoutineObject(<<"w">>, <<"w","(","a",","," ","b",")"," ","-",">"," ","N","o","n","e","\n">>))

ExObjects == DOMAIN ExHeap

\* the attributes of a property that _examine looks at, line 251
GetterAndSetter(fget) ==
  <<Attribute(<<"f","g","e","t">>, fget, ""), Attribute(<<"f","s","e","t">>, "None", "")>>

\* sorted(dir(object)) with getattr, for each object
ExAttributes ==
  [n \in ExObjects |->
     CASE n = "hal._wpiHal" ->
            <<Attribute(<<"A">>, "A", ""),
              Attribute(<<"B">>, "B", ""),
              Attribute(<<"C">>, "C", ""),
              Attribute(<<"D">>, "D", ""),
              Attribute(<<"F">>, "F", ""),
              Attribute(ClassMode.name, "Mode", "enum"),
              Attribute(<<"g">>, "g", ""),
              Attribute(<<"n">>, "n", ""),
              Attribute(<<"r">>, "r", "signature"),
              Attribute(<<"w">>, "w", "diverging")>>
       [] n \in {"E", "F"} -> <<Attribute(<<"s">>, "s", "")>>
       [] n = "G" -> <<Attribute(<<"t">>, "t", "")>>
       [] n = "Mode" ->
            <<Attribute(T_init, "Mode.__init__", ""),
              Attribute(<<"k","O","f","f">>, "kOff", ""),
              Attribute(<<"n","a","m","e">>, "name", ""),
              Attribute(<<"v","a","l","u","e">>, "value", "")>>
       [] n = "p" -> GetterAndSetter("p.fget")
       [] n = "q" -> GetterAndSetter("q.fget")
       [] n = "name" -> GetterAndSetter("name.fget")
       [] n = "value" -> GetterAndSetter("value.fget")
       [] n \in Objects \ {"hal._wpiHal", "E", "F", "p", "q"} -> Attributes[n]
       [] OTHER -> <<>>]

ExChoices == {"enum", "signature", "diverging"}

ExMembersWith(chosen) ==
  [n \in ExObjects |->
     SelectSeq(ExAttributes[n], LAMBDA a : a.when = "" \/ a.when \in chosen)]

\* the members of the object n of heap that have the name key
AttributesNamed(heap, attrs, n, key) ==
  {heap[attrs[n][i].member] : i \in {j \in DOMAIN attrs[n] : attrs[n][j].key = key}}

\* python_util.isEnum(object), lines 141-151, for the object n of heap;
\* n is "" for None
isEnum(heap, attrs, n) ==
  /\ n \in DOMAIN heap
  /\ heap[n].kind = "class"
  /\ heap[n].doc # None /\ heap[n].doc # <<>>
  /\ \/ StartsWith(heap[n].doc, <<"M","e","m","b","e","r","s",":","\n","\n">>)
     \/ Find(heap[n].doc, <<"\n","\n","M","e","m","b","e","r","s",":","\n","\n">>, 0) # -1
  /\ \E m \in AttributesNamed(heap, attrs, n, T_init) :
       /\ m.kind = "routine"
       /\ m.doc = <<"_","_","i","n","i","t","_","_","(","s","e","l","f",":"," ">> \o getFullClassName(heap[n]) \o <<","," ","v","a","l","u","e",":"," ","i","n","t",")"," ","-",">"," ","N","o","n","e","\n">>
  /\ \E m \in AttributesNamed(heap, attrs, n, <<"n","a","m","e">>) :
       m.kind = "property" /\ m.doc = <<"n","a","m","e","(","s","e","l","f",":"," ","o","b","j","e","c","t",")"," ","-",">"," ","s","t","r","\n">>
  /\ \E m \in AttributesNamed(heap, attrs, n, <<"v","a","l","u","e">>) :
       m.kind = "property"

\* lines 227-233: the classes of the signature that are not built-in are
\* appended to classes_from_function_signatures unless they are in it
RECURSIVE WithClassesOf(_, _, _)
WithClassesOf(heap, found, sig_classes) ==
  IF found = <<>> THEN sig_classes
  ELSE LET cls == ObjectOfClass(heap, found[1]) IN
       WithClassesOf(heap, Tail(found),
                     IF isBuiltInClass(found[1]) \/ Contains(sig_classes, cls)
                     THEN sig_classes ELSE Append(sig_classes, cls))

\* _examine(indent, full_name, parent, key, some_object, ids,
\* classes_from_function_signatures), lines 223-244, up to its for loop:
\* the lists it leaves and whether it goes on to the members of the
\* object; status is "diverges" when getClassesFromSignatureLine does not
\* return
ExEntered(heap, attrs, parent, object, id_list, sig_classes, oom) ==
  IF Visited(object, id_list)
  THEN [status |-> "ok", ids |-> id_list, classes |-> sig_classes, enters |-> FALSE]
  ELSE LET found == IF /\ heap[object].kind = "routine"
                       /\ heap[object].doc # None /\ heap[object].doc # <<>>
                    THEN getClassesFromSignatureLine(FirstLine(heap[object].doc), oom)
                    ELSE [status |-> "ok", classes |-> <<>>]
       IN  [status  |-> found.status,
            ids     |-> Append(id_list, object),
            classes |-> WithClassesOf(heap, found.classes, sig_classes),
            enters  |->
              /\ ~(heap[object].kind = "module" /\ isBuiltInModule(heap[object]))
              /\ ~(heap[object].kind = "class" /\ isBuiltInClass(heap[object]))
              /\ ~isEnum(heap, attrs, parent)
              /\ heap[object].kind \in {"module", "class", "property"}]

NoExCall == [parent |-> "", object |-> ""]

ExStart ==
  /\ exMembers \in {ExMembersWith(chosen \cup {"reexport", "outer"}) :
                      chosen \in SUBSET ExChoices}
  /\ exRoots \in RootLists
  /\ exIds = <<>>
  /\ exSigClasses = <<>>
  /\ exFrames = <<>>
  /\ exRoot = 1
  /\ exPc = "roots"
  /\ exI = 0
  /\ exBreakOut = FALSE
  /\ exExamined = [n \in ExObjects |-> 0]
  /\ exCall = NoExCall

\* _examine is called for object, a member of parent ("" for None)
ExCall(parent, object) ==
  /\ exCall' = [parent |-> parent, object |-> object]
  /\ UNCHANGED <<exMembers, exRoots, exIds, exSigClasses, exPc, exExamined>>
  /\ UNCHANGED <<sigVars, docVars, genVars, walkVars, resVars, blkVars, treeVars, catVars, tokVars>>

\* lines 264-268: _examine is called for the next root module
ExamineRoot ==
  /\ exPc = "roots" /\ exCall = NoExCall
  /\ exFrames = <<>> /\ exRoot <= Len(exRoots)
  /\ ExCall("", exRoots[exRoot])
  /\ exRoot' = exRoot + 1
  /\ UNCHANGED <<exFrames, exI, exBreakOut>>

\* what the call of _examine that the lines 223-244 ended with e leaves
Examined(e) ==
  /\ exIds' = e.ids
  /\ exSigClasses' = e.classes
  /\ IF e.status = "diverges"
     THEN exPc' = "stuck" /\ exFrames' = exFrames
     ELSE /\ exPc' = exPc
          /\ exFrames' = IF e.enters
                         THEN Append(exFrames,
                                     [object |-> exCall.object,
                                      rest   |-> exMembers[exCall.object]])
                         ELSE exFrames
  /\ exExamined' = IF Visited(exCall.object, exIds) THEN exExamined
                   ELSE [exExamined EXCEPT ![exCall.object] = @ + 1]
  /\ exCall' = NoExCall
  /\ UNCHANGED <<exMembers, exRoots, exRoot, exI, exBreakOut>>
  /\ UNCHANGED <<sigVars, docVars, genVars, walkVars, resVars, blkVars, treeVars, catVars, tokVars>>

\* lines 223-244 of the call: the id is recorded, the classes of the
\* signature are collected and the for loop over the members is entered
Examine ==
  /\ exPc \in {"roots", "pass"} /\ exCall # NoExCall
  /\ \E oom \in BOOLEAN :
       Examined(ExEntered(ExHeap, exMembers, exCall.parent, exCall.object,
                          exIds, exSigClasses, oom))

\* the calls in progress with the first of the members left to the call on
\* top taken off
ExRestOfTop ==
  [exFrames EXCEPT ![Len(exFrames)] = [@ EXCEPT !.rest = Tail(@)]]

\* lines 246-254: the member is passed over
ExPassedOver(object, key, member) ==
  \/ key = <<"_">>
  \/ ExHeap[object].kind = "property" /\ key \notin {<<"f","g","e","t">>, <<"f","s","e","t">>}
  \/ ignoreMember(ExHeap[object], key, ExHeap[member])

\* one iteration of the for loop over the members, lines 245-258
ExamineMember ==
  /\ exPc \in {"roots", "pass"} /\ exCall = NoExCall
  /\ exFrames # <<>>
  /\ exFrames[Len(exFrames)].rest # <<>>
  /\ LET top == exFrames[Len(exFrames)] IN
     IF ExPassedOver(top.object, top.rest[1].key, top.rest[1].member)
     THEN /\ UNCHANGED <<exMembers, exRoots, exIds, exSigClasses, exPc,
                         exExamined, exCall>>
          /\ UNCHANGED <<sigVars, docVars, genVars, walkVars, resVars, blkVars, treeVars, catVars, tokVars>>
     ELSE ExCall(top.object, top.rest[1].member)
  /\ exFrames' = ExRestOfTop
  /\ UNCHANGED <<exRoot, exI, exBreakOut>>

\* the for loop over the members is done: the call returns
ExamineReturn ==
  /\ exPc \in {"roots", "pass"} /\ exCall = NoExCall
  /\ exFrames # <<>>
  /\ exFrames[Len(exFrames)].rest = <<>>
  /\ exFrames' = SubSeq(exFrames, 1, Len(exFrames) - 1)
  /\ UNCHANGED <<exMembers, exRoots, exIds, exSigClasses, exRoot, exPc, exI,
                 exBreakOut, exExamined, exCall>>
  /\ UNCHANGED <<sigVars, docVars, genVars, walkVars, resVars, blkVars, treeVars, catVars, tokVars>>

\* lines 269-272: the test of the while loop after the root modules or
\* after a pass that did not break out; the list is sorted for the pass
BeginPass ==
  /\ exFrames = <<>> /\ exCall = NoExCall
  /\ \/ exPc = "roots" /\ exRoot > Len(exRoots)
     \/ exPc = "pass" /\ exI > Len(exSigClasses) /\ ~exBreakOut
  /\ IF Len(exSigClasses) = 0
     THEN exPc' = "returned" /\ UNCHANGED <<exSigClasses, exI, exBreakOut>>
     ELSE /\ exPc' = "pass"
          /\ exSigClasses' = SortedByFullName(ExHeap, exSigClasses)
          /\ exI' = 1
          /\ exBreakOut' = TRUE
  /\ UNCHANGED <<exMembers, exRoots, exIds, exFrames, exRoot, exExamined, exCall>>
  /\ UNCHANGED <<sigVars, docVars, genVars, walkVars, resVars, blkVars, treeVars, catVars, tokVars>>

\* lines 273-279: one iteration of the for loop over the classes of the
\* pass, which is the list that _examine appends to
ExamineCollected ==
  /\ exPc = "pass" /\ exCall = NoExCall
  /\ exFrames = <<>> /\ exI <= Len(exSigClasses)
  /\ IF Visited(exSigClasses[exI], exIds)
     THEN /\ UNCHANGED <<exMembers, exRoots, exIds, exSigClasses, exPc,
                         exBreakOut, exExamined, exCall>>
          /\ UNCHANGED <<sigVars, docVars, genVars, walkVars, resVars, blkVars, treeVars, catVars, tokVars>>
     ELSE /\ ExCall("", exSigClasses[exI])
          /\ exBreakOut' = FALSE
  /\ exI' = exI + 1
  /\ UNCHANGED <<exFrames, exRoot>>

\* lines 280-281: no class of the pass was examined
BreakOut ==
  /\ exPc = "pass" /\ exCall = NoExCall
  /\ exFrames = <<>>
  /\ exI > Len(exSigClasses) /\ exBreakOut
  /\ exPc' = "returned"
  /\ UNCHANGED <<exMembers, exRoots, exIds, exSigClasses, exFrames, exRoot, exI,
                 exBreakOut, exExamined, exCall>>
  /\ UNCHANGED <<sigVars, docVars, genVars, walkVars, resVars, blkVars, treeVars, catVars, tokVars>>

ExNext ==
  \/ ExamineRoot
  \/ Examine
  \/ ExamineMember
  \/ ExamineReturn
  \/ BeginPass
  \/ ExamineCollected
  \/ BreakOut

ExIdle ==
  /\ exMembers = <<>> /\ exRoots = <<>> /\ exIds = <<>> /\ exSigClasses = <<>>
  /\ exFrames = <<>> /\ exRoot = 0 /\ exPc = "idle" /\ exI = 0
  /\ exBreakOut = FALSE /\ exExamined = <<>> /\ exCall = NoExCall

-----------------------------------------------------------------------------
(* Specifications                                                          *)

\* processSignature applied to each input line
InitSig == SigStart /\ DocIdle /\ GenIdle /\ WalkIdle /\ ResIdle /\ BlkIdle /\ TreeIdle /\ CatIdle /\ TokIdle /\ ExIdle
SpecSig == InitSig /\ [][SigNext]_vars

\* processFunctionDoc applied to each input routine
InitDoc == DocStart /\ SigIdle /\ GenIdle /\ WalkIdle /\ ResIdle /\ BlkIdle /\ TreeIdle /\ CatIdle /\ TokIdle /\ ExIdle
SpecDoc == InitDoc /\ [][DocNext]_vars

\* the function-block generators called for one member after another
InitGen == GenStart /\ SigIdle /\ DocIdle /\ WalkIdle /\ ResIdle /\ BlkIdle /\ TreeIdle /\ CatIdle /\ TokIdle /\ ExIdle
SpecGen == InitGen /\ [][GenNext]_vars

\* collectModulesAndClasses walking the object graph of the root modules
InitWalk == WalkStart /\ SigIdle /\ DocIdle /\ GenIdle /\ ResIdle /\ BlkIdle /\ TreeIdle /\ CatIdle /\ TokIdle /\ ExIdle
SpecWalk == InitWalk /\ [][WalkNext]_vars

\* varNameForType applied to each type name under each alias map
InitRes == ResStart /\ SigIdle /\ DocIdle /\ GenIdle /\ WalkIdle /\ BlkIdle /\ TreeIdle /\ CatIdle /\ TokIdle /\ ExIdle
SpecRes == InitRes /\ [][ResNext]_vars

\* generateFunctionBlock applied to each argument list
InitBlk == BlkStart /\ SigIdle /\ DocIdle /\ GenIdle /\ WalkIdle /\ ResIdle /\ TreeIdle /\ CatIdle /\ TokIdle /\ ExIdle
SpecBlk == InitBlk /\ [][BlkNext]_vars

\* the toolbox file
InitTree == TreeStart /\ SigIdle /\ DocIdle /\ GenIdle /\ WalkIdle /\ ResIdle /\ BlkIdle /\ CatIdle /\ TokIdle /\ ExIdle
SpecTree == InitTree /\ [][TreeNext]_vars

\* the blocks of one module or class
InitCat == CatStart /\ SigIdle /\ DocIdle /\ GenIdle /\ WalkIdle /\ ResIdle /\ BlkIdle /\ TreeIdle /\ TokIdle /\ ExIdle
SpecCat == InitCat /\ [][CatNext]_vars

\* _findEndOfToken applied to each parameter list, index and delimiter list
InitTok == TokStart /\ SigIdle /\ DocIdle /\ GenIdle /\ WalkIdle /\ ResIdle /\ BlkIdle /\ TreeIdle /\ CatIdle /\ ExIdle
SpecTok == InitTok /\ [][TokNext]_vars

\* Examine.examine for each object graph and list of root modules
InitEx == ExStart /\ SigIdle /\ DocIdle /\ GenIdle /\ WalkIdle /\ ResIdle /\ BlkIdle /\ TreeIdle /\ CatIdle /\ TokIdle
SpecEx == InitEx /\ [][ExNext]_vars

-----------------------------------------------------------------------------
(* The doc splitter's claims                                               *)

\* C3: for a routine whose doc is not marked overloaded and whose first
\* line is a signature line, processFunctionDoc returns exactly one
\* signature, the complete first line, and one comment, the stripped rest of
\* the doc after that line, whether or not a newline follows the first line.
\* (Addresses ` object at 0x...` are taken as removed from the doc first.)
C3_PlainSplit ==
  (docPc = "done" /\ docIn.kind = "plain" /\ docIn.first \in ValidFirstLines) =>
    /\ docOut.status = "ok"
    /\ docOut.signatures = <<RemoveAddresses(docIn.first)>>
    /\ docOut.comments = <<CommentOf(docIn.lastRest, 0)>>

\* the section numbers of docIn are 1, 2, ..., k in this order
NumberedInOrder(d) == \A k \in 1 .. Len(d.nums) : d.nums[k] = k

\* C4: for an overloaded doc with sections 1..k, processFunctionDoc returns
\* k signatures in section order and k comments; signature i is the first
\* line of section i, comment i the (stripped) text after that line up to
\* the marker of section i+1, or up to the end of the doc for section k.
C4_OverloadOrdering ==
  (/\ docPc = "done"
   /\ docIn.kind = "overloaded"
   /\ isOverloaded(routine)
   /\ NumberedInOrder(docIn)) =>
    /\ docOut.status = "ok"
    /\ docOut.signatures = [i \in 1 .. Len(docIn.nums) |-> SigLineOf(i)]
    /\ docOut.comments =
         [i \in 1 .. Len(docIn.nums) |-> CommentOf(RestKindAt(docIn, i), i)]

\* The sections a scan for 1, 2, 3, ... finds: each the first section with
\* the expected number after the section found before it
RECURSIVE FoundSections(_, _, _)
FoundSections(nums, expected, pos) ==
  LET later == {p \in (pos + 1) .. Len(nums) : nums[p] = expected}
  IN  IF later = {} THEN <<>>
      ELSE LET p == CHOOSE q \in later : \A r \in later : q <= r
           IN  <<p>> \o FoundSections(nums, expected + 1, p)

\* signature text `sig` was cut from the first line of the k-th section
FromSection(sig, k) == StartsWith(sig, <<"f","(","a">> \o StrNat(k) \o <<":">>)

\* C5: in an overloaded doc the scan stops at the first expected number
\* whose marker does not occur after the previous marker: the signatures
\* returned are those of the sections found up to there, one each, in
\* order, and none comes from a section numbered above the gap; a doc with
\* no section 1 yields no signature.
C5_GapStopsScan ==
  (docPc = "done" /\ docIn.kind = "overloaded" /\ isOverloaded(routine)) =>
    LET found == FoundSections(docIn.nums, 1, 0) IN
    /\ Len(docOut.signatures) = Len(found)
    /\ Len(docOut.comments) = Len(found)
    /\ \A i \in 1 .. Len(found) : FromSection(docOut.signatures[i], found[i])
    /\ (\A k \in 1 .. Len(docIn.nums) : docIn.nums[k] # 1) =>
         docOut.signatures = <<>>

\* C5 witness: a doc with sections 1, 2 and 4 gave the signatures of
\* sections 1 and 2
C5_Witness ==
  /\ docPc = "done"
  /\ isOverloaded(routine)
  /\ docIn.nums = <<1, 2, 4>>
  /\ Len(docOut.signatures) = 2
  /\ FromSection(docOut.signatures[1], 1)
  /\ FromSection(docOut.signatures[2], 2)

-----------------------------------------------------------------------------
(* The function-block generators' claims                                   *)

\* the kinds of line that are no signature line
InvalidLineKinds == {"garbage", "text"}

\* a call of a generator has ended
Called == genPc # "idle" /\ last.outcome # "none"

\* what the last call appended to toolbox_blocks and printed
NewBlocks == SubSeq(toolbox_blocks, Len(last.blocks) + 1, Len(toolbox_blocks))
NewMessages == SubSeq(stderr, Len(last.stderr) + 1, Len(stderr))

\* the last call left the blocks alone, printed the one message `tag` and
\* returned, and the generator is ready for the next member
SkippedWith(tags) ==
  /\ last.outcome = "returned"
  /\ genPc = "ready"
  /\ toolbox_blocks = last.blocks
  /\ SubSeq(stderr, 1, Len(last.stderr)) = last.stderr
  /\ Len(NewMessages) = 1
  /\ NewMessages[1] \in tags

\* C6 as stated: for every routine with a doc whose first line is no valid
\* signature line, the docs marked overloaded (first line
\* `name(*args, **kwargs)`) among them, processFunctionDoc returns zero
\* signatures and the generator reports one warning, appends no block,
\* leaves toolbox_blocks as it was and returns normally.
C6_FailurePolicy ==
  (/\ Called
   /\ \/ last.member.kind \in {"empty", "overloaded"}
      \/ last.member.kind = "plain" /\ last.member.sigs[1] \in InvalidLineKinds) =>
    /\ processFunctionDoc(FunctionOf(last.member)).status = "ok"
    /\ processFunctionDoc(FunctionOf(last.member)).signatures = <<>>
    /\ SkippedWith({"ERROR: no doc for function",
                    "WARNING: function doc has no function signature"})

\* C6 amended: for a routine whose doc is empty, or is not marked overloaded
\* and has a first line that is no valid signature line,
\* processFunctionDoc returns zero signatures, and the generator reports
\* one diagnostic (the no-doc error for the empty doc, the no-signature
\* warning otherwise), appends no block, leaves toolbox_blocks as it was
\* and returns normally, ready for the next routine.
C6_FailurePolicyNotOverloaded ==
  /\ (Called /\ last.member.kind = "empty") =>
       /\ processFunctionDoc(FunctionOf(last.member)).status = "ok"
       /\ processFunctionDoc(FunctionOf(last.member)).signatures = <<>>
       /\ SkippedWith({"ERROR: no doc for function"})
  /\ (/\ Called
      /\ last.member.kind = "plain"
      /\ last.member.sigs[1] \in InvalidLineKinds) =>
       /\ ~isOverloaded(FunctionOf(last.member))
       /\ processFunctionDoc(FunctionOf(last.member)).status = "ok"
       /\ processFunctionDoc(FunctionOf(last.member)).signatures = <<>>
       /\ SkippedWith({"WARNING: function doc has no function signature"})

\* C6 witness: a second routine, with `f(x: int)` for its first line, was
\* skipped with a warning while the block of the first routine stayed
C6_Witness ==
  /\ Called
  /\ last.member.kind = "plain" /\ last.member.sigs[1] = "garbage"
  /\ Len(last.blocks) = 1
  /\ toolbox_blocks = last.blocks
  /\ last.outcome = "returned"
  /\ stderr[Len(stderr)] = "WARNING: function doc has no function signature"

\* C7: whatever the member and its doc, no call of
\* generateBlockForModuleFunction or generateBlockForClassOrInstanceFunction
\* ends with an exception escaping to the caller.
C7_NoExceptionEscapes == last.outcome # "raised" /\ genPc # "aborted"

\* the tooltip of a function block, inside the variable setter when the
\* block is wrapped in one
TooltipOf(block) ==
  IF block.type = "variables_set"
  THEN block.inputs[ValueKey].block.extraState.tooltip
  ELSE block.extraState.tooltip

\* the sections of a member's doc whose signature parses and carries the
\* member's name, in order
RECURSIVE NamedSections(_, _)
NamedSections(mem, k) ==
  IF k > Len(mem.sigs) THEN <<>>
  ELSE (IF mem.sigs[k] \in ParseableKinds THEN <<k>> ELSE <<>>) \o
       NamedSections(mem, k + 1)

MismatchSections(mem) == {k \in 1 .. Len(mem.sigs) : mem.sigs[k] = "mismatch"}

\* C8: for a member whose overload set holds a signature with another
\* function name, the call returns with one name-mismatch error per such
\* signature and no block for it, and with one block for each other
\* (parseable, rightly named) signature of the set, in order, each with the
\* comment of its own section as tooltip.
C8_MismatchSkipsOneSignature ==
  (/\ Called
   /\ last.member.kind = "overloaded"
   /\ MismatchSections(last.member) # {}) =>
    LET named == NamedSections(last.member, 1) IN
    /\ last.outcome = "returned"
    /\ SubSeq(toolbox_blocks, 1, Len(last.blocks)) = last.blocks
    /\ Len(NewBlocks) = Len(named)
    /\ \A i \in 1 .. Len(named) :
         TooltipOf(NewBlocks[i]) = CommentText(named[i])
    /\ Cardinality({i \in 1 .. Len(NewMessages) :
                      NewMessages[i] = "ERROR: signature has different function name"})
         = Cardinality(MismatchSections(last.member))

-----------------------------------------------------------------------------
(* The walker's claims                                                     *)

Range(list) == {list[i] : i \in 1 .. Len(list)}
NoRepeats(list) == \A i, j \in 1 .. Len(list) : list[i] = list[j] => i = j

\* the objects the for loop's body goes on to from the members of object n
Followed(n) ==
  UNION {Range(MemberTargets(Heap, a.member, TRUE).targets) :
           a \in {b \in Range(members[n]) : ~Skipped(Heap, n, b.key, b.member)}}

\* the objects reachable from the objects S over the members of the
\* objects that are not built-in
RECURSIVE ReachableFrom(_)
ReachableFrom(S) ==
  LET more == S \cup UNION {Followed(n) : n \in S \ BuiltInObjects}
  IN  IF more = S THEN S ELSE ReachableFrom(more)

\* C9: during collectModulesAndClasses one list of identities serves all
\* root modules and holds no identity twice; the members of every object
\* are listed at most once; at every point of the walk and in the result
\* neither modules nor classes holds an entry twice and together they hold
\* as many entries as there are distinct identities of objects that are not
\* built-in among those the walk has reached; the result holds exactly the
\* objects that are not built-in and reachable from the root modules.
C9_DedupInvariant ==
  walkPc \in {"walking", "returned"} =>
    /\ NoRepeats(ids)
    /\ \A n \in Objects : getmembers_calls[n] <= 1
    /\ NoRepeats(modules) /\ NoRepeats(classes)
    /\ Range(modules) \cap Range(classes) = {}
    /\ Len(modules) + Len(classes) = Cardinality(Range(ids) \ BuiltInObjects)
    /\ walkPc = "returned" =>
         Range(modules) \cup Range(classes) =
           ReachableFrom(Range(root_modules)) \ BuiltInObjects

\* C9 witness: the walk of the two roots hal and hal._wpiHal has returned;
\* class A, bound in both roots and twice in hal (as A and as Alias), was
\* collected once and its members were listed once
C9_Witness ==
  /\ walkPc = "returned"
  /\ root_modules = <<"hal", "hal._wpiHal">>
  /\ \E i, j \in 1 .. Len(members["hal"]) :
       /\ members["hal"][i].key = <<"A">> /\ members["hal"][i].member = "A"
       /\ members["hal"][j].key = <<"A","l","i","a","s">> /\ members["hal"][j].member = "A"
  /\ \E i \in 1 .. Len(members["hal._wpiHal"]) :
       members["hal._wpiHal"][i].member = "A"
  /\ modules = <<"hal", "hal._wpiHal">>
  /\ classes = <<"A", "B", "C", "D", "F">>
  /\ getmembers_calls["A"] = 1

\* C10: in every state of the walk no built-in module is in modules and no
\* built-in class is in classes, the members of a built-in module or class
\* have not been listed, and no call in progress is listing them.
C10_ForeignBoundary ==
  /\ \A i \in 1 .. Len(modules) : modules[i] \notin BuiltInObjects
  /\ \A i \in 1 .. Len(classes) : classes[i] \notin BuiltInObjects
  /\ \A n \in BuiltInObjects \cap DOMAIN getmembers_calls : getmembers_calls[n] = 0
  /\ \A i \in 1 .. Len(frames) : frames[i].object \notin BuiltInObjects

\* C10 witness: a walk has returned with modules and classes collected
\* after it stopped at the built-in module logging (a root), at Logger (an
\* attribute, a signature reference and a getter's type), at Generic and
\* pybind11_object (base chains) and at int (the type of a variable)
C10_Witness ==
  /\ walkPc = "returned"
  /\ {"logging", "Logger", "Generic", "pybind11_object", "int"} \subseteq stopped_at
  /\ modules # <<>> /\ classes # <<>>

-----------------------------------------------------------------------------
(* The claims about the alias map and the allowed types                    *)

\* the names (as getClassName gives them) of the classes that are not
\* built-in
LibraryClassNames ==
  {getClassName(Heap[n]) :
     n \in {o \in Objects \ BuiltInObjects : Heap[o].kind = "class"}}

\* C11: once BlocksGenerator.__init__ has run collectModulesAndClasses
\* and collectAllowedTypes, every alias recorded in dict_class_name_to_alias
\* names a class that is not built-in, and every key and every listed name
\* of dict_class_name_to_allowed_types is a class that is not built-in.
C11_EdgesNonForeign ==
  walkPc = "constructed" =>
    /\ \A k \in DOMAIN dict_class_name_to_alias :
         dict_class_name_to_alias[k] \in LibraryClassNames
    /\ \A k \in DOMAIN dict_class_name_to_allowed_types :
         /\ k \in LibraryClassNames
         /\ Range(dict_class_name_to_allowed_types[k]) \subseteq LibraryClassNames

\* the classes of the model that have class t among their base classes
Descendants(t) ==
  {c \in Range(classes) : c # t /\ Contains(Heap[c].mro, t)}

\* C12: for every class T of the model, getAllowedTypes of T's name holds
\* T's name and the name of every class of the model that has T among its
\* base classes, at any depth.
C12_AllowedTypesComplete ==
  walkPc = "constructed" =>
    \A t \in Range(classes) :
      /\ Contains(getAllowedTypes(dict_class_name_to_allowed_types,
                                  getClassName(Heap[t])),
                  getClassName(Heap[t]))
      /\ \A c \in Descendants(t) :
           Contains(getAllowedTypes(dict_class_name_to_allowed_types,
                                    getClassName(Heap[t])),
                    getClassName(Heap[c]))

\* the subclass edges (a, b): b is a class of the model and a, the class
\* that follows b in b's base chain, is not built-in
SubclassEdges ==
  {e \in Range(classes) \X Objects :
     /\ Len(Heap[e[1]].mro) > 1
     /\ Heap[e[1]].mro[2] = e[2]
     /\ e[2] \notin BuiltInObjects}

-----------------------------------------------------------------------------
(* The claims about alias resolution and function blocks                   *)

\* C14: for every alias map, with or without a cycle, the while loop of
\* varNameForType ends; when the map has no cycle on the way it ends with a
\* name that is not a key of the map (within as many steps as the map has
\* entries, plus one).
C14_AliasResolutionTerminates ==
  resPc = "done" =>
    /\ resOut.resolved.status # "diverges"
    /\ resOut.var_name.status # "diverges"
    /\ resOut.resolved.status = "ok" =>
         resOut.resolved.t \notin DOMAIN resIn.alias_map

\* the type an argument's or the return type's aliases lead to
ResolvedType(type) == FollowAliases(blkIn.alias_map, type, {}).t

\* a type for which a variable is provided: tuple..., dict..., list..., or
\* a dotted name
VariableProducing(type) ==
  \/ StartsWith(type, <<"t","u","p","l","e">>)
  \/ StartsWith(type, <<"d","i","c","t">>)
  \/ StartsWith(type, <<"l","i","s","t">>)
  \/ \E i \in 1 .. Len(type) : type[i] = "."

\* the name of the variable for such a type
VariableNameFor(type) ==
  CASE StartsWith(type, <<"t","u","p","l","e">>) -> <<"m","y","T","u","p","l","e">>
    [] StartsWith(type, <<"d","i","c","t">>)  -> <<"m","y","D","i","c","t">>
    [] StartsWith(type, <<"l","i","s","t">>)  -> <<"m","y","L","i","s","t">>
    [] OTHER ->
         LET lastDot == CHOOSE i \in 1 .. Len(type) :
                          /\ type[i] = "."
                          /\ \A j \in (i + 1) .. Len(type) : type[j] # "."
         IN  <<"m","y">> \o SubSeq(type, lastDot + 1, Len(type))

\* the call block of the descriptor that was returned: the descriptor
\* itself, or the VALUE input of the variables_set block around it
CallBlock ==
  IF blkOut.block.type = "variables_set"
  THEN blkOut.block.inputs[ValueKey].block
  ELSE blkOut.block

\* C15: for every argument i (counted from 0) whose alias-resolved type is
\* variable-producing, inputs['ARG<i>'] of the call block is a
\* variables_get block for the variable named after the resolved type and
\* nothing else (no shadow block), whatever the default value is; i is the
\* argument's position in the descriptor's argument list.
C15_VariableSocketPriority ==
  blkPc = "done" =>
    \A i \in 1 .. Len(blkIn.args) :
      VariableProducing(ResolvedType(blkIn.args[i].type)) =>
        /\ ArgKey(i - 1) \in DOMAIN CallBlock.inputs
        /\ CallBlock.inputs[ArgKey(i - 1)] =
             [block |-> [type   |-> "variables_get",
                         fields |-> [VAR |-> [name |->
                           VariableNameFor(ResolvedType(blkIn.args[i].type))]]]]
        /\ CallBlock.extraState.args[i].name = ArgName(i - 1)
        /\ CallBlock.extraState.args[i].type = blkIn.args[i].type

\* C15 witness: the second argument has the alias hal.U as type and the
\* default value None, and socket ARG1 holds the getter of myA; the first
\* argument, a list with default [], has the getter of myList in ARG0
C15_Witness ==
  /\ blkPc = "done"
  /\ blkIn.args = <<ArgOf(T_list_int, <<"[","]">>), ArgOf(T_hal_U, T_None)>>
  /\ CallBlock.inputs[ArgKey(1)].block.fields.VAR.name = <<"m","y","A">>
  /\ CallBlock.inputs[ArgKey(0)].block.fields.VAR.name = <<"m","y","L","i","s","t">>

\* the types with literal blocks, and the default values that are values
\* of such a type
LiteralTypes == {T_bool, T_int, T_float, T_str}
ParsesAs(type, default) ==
  CASE type = T_int   -> IsPyInt(default)
    [] type = T_float -> IsPyFloat(default)
    [] type = T_bool  -> default \in {<<"T","r","u","e">>, <<"F","a","l","s","e">>}
    [] type = T_str   -> TRUE

LiteralArgs ==
  {i \in 1 .. Len(blkIn.args) :
     /\ ~VariableProducing(ResolvedType(blkIn.args[i].type))
     /\ blkIn.args[i].default # None
     /\ blkIn.args[i].type \in LiteralTypes}

\* C16: every argument whose type is not variable-producing and is one of
\* bool, int, float, str, and that has a default value, gets a literal
\* (shadow) block in its input socket when the default is a value of the
\* type; otherwise its socket stays empty and a warning is printed.
C16_LiteralDefaults ==
  blkPc = "done" =>
    /\ \A i \in LiteralArgs :
         IF ParsesAs(blkIn.args[i].type, blkIn.args[i].default)
         THEN /\ ArgKey(i - 1) \in DOMAIN CallBlock.inputs
              /\ DOMAIN CallBlock.inputs[ArgKey(i - 1)] = {"shadow"}
         ELSE ArgKey(i - 1) \notin DOMAIN CallBlock.inputs
    /\ blkOut.warnings >=
         Cardinality({i \in LiteralArgs :
                        ~ParsesAs(blkIn.args[i].type, blkIn.args[i].default)})

\* C17: the call block of every descriptor carries the tooltip, the return
\* type, and one entry per argument, in the order of the signature, with
\* the argument's name, type and default value.
C17_DescriptorContent ==
  blkPc = "done" =>
    /\ CallBlock.extraState.tooltip = T_Tooltip
    /\ CallBlock.extraState.returnType = blkIn.return_type
    /\ Len(CallBlock.extraState.args) = Len(blkIn.args)
    /\ \A i \in 1 .. Len(blkIn.args) :
         /\ CallBlock.extraState.args[i].name = ArgName(i - 1)
         /\ CallBlock.extraState.args[i].type = blkIn.args[i].type
         /\ "default" \in DOMAIN CallBlock.extraState.args[i]
         /\ CallBlock.extraState.args[i].default = blkIn.args[i].default

\* whether the claim has the call block wrapped
WrapsReturn ==
  /\ blkIn.return_type # <<>>
  /\ blkIn.return_type # T_None
  /\ VariableProducing(ResolvedType(blkIn.return_type))

\* C18: the descriptor is a variables_set block, for the variable named
\* after the alias-resolved return type and with the call block as its only
\* input VALUE, exactly when the return type is not empty, is not None and
\* resolves to a variable-producing type; otherwise the descriptor is the
\* call block itself.
C18_ReturnWrapping ==
  blkPc = "done" =>
    IF WrapsReturn
    THEN /\ blkOut.block.kind = "block"
         /\ blkOut.block.type = "variables_set"
         /\ blkOut.block.fields =
              <<<<"VAR", VariableNameFor(ResolvedType(blkIn.return_type))>>>>
         /\ DOMAIN blkOut.block.inputs = {ValueKey}
         /\ DOMAIN blkOut.block.inputs[ValueKey] = {"block"}
         /\ blkOut.block.inputs[ValueKey].block.type = T_blockType
    ELSE blkOut.block.type = T_blockType

\* C18 witness: a function of one int argument that returns the alias
\* hal.U is wrapped in the setter of myA
C18_Witness ==
  /\ blkPc = "done"
  /\ blkIn.return_type = T_hal_U
  /\ blkIn.args = <<ArgOf(T_int, <<"1">>)>>
  /\ blkOut.block.type = "variables_set"
  /\ blkOut.block.fields = <<<<"VAR", <<"m","y","A">>>>>>
  /\ blkOut.block.inputs[ValueKey].block.extraState.returnType = T_hal_U

-----------------------------------------------------------------------------
(* The claim about the category tree                                       *)

\* the keys main generated a category for
CategoryKeys ==
  {toolbox_function_names[i].key : i \in DOMAIN toolbox_function_names}

\* the dotted prefixes of a key, the key itself included
PrefixesOf(key) ==
  LET parts == Split(key, <<".">>)
  IN  {JoinTexts(SubSeq(parts, 1, n), <<".">>) : n \in 1 .. Len(parts)}

AllPrefixes == UNION {PrefixesOf(k) : k \in CategoryKeys}

\* a dotted name without its last segment, and its last segment
ParentKey(key) ==
  IF RFind(key, <<".">>) = -1 THEN <<>> ELSE Slice(key, 0, RFind(key, <<".">>))
LastPart(key) == SliceFrom(key, RFind(key, <<".">>) + 1)

\* the positions of toolbox where a node opens and where one closes
Opens == {i \in DOMAIN toolbox : toolbox[i].piece \in {"call", "category"}}
Closes == {i \in DOMAIN toolbox : toolbox[i].piece \in {"end_call", "end_category"}}

\* how many nodes are open at position i
Depth(i) ==
  Cardinality({j \in Opens : j < i}) - Cardinality({j \in Closes : j < i})

\* the node position i lies directly in: the last node opened before i one
\* level up
Enclosers(i) == {j \in Opens : j < i /\ Depth(j) = Depth(i) - 1}
Encloser(i) == CHOOSE j \in Enclosers(i) : \A k \in Enclosers(i) : k <= j

\* The dotted key of the node opened at position i, read off the output: a
\* call names its key through its module name, a grouping category is named
\* by its segment below the node it lies in.
RECURSIVE NodeKey(_)
NodeKey(i) ==
  IF toolbox[i].piece = "call"
  THEN LET ks == {k \in CategoryKeys :
                    Replace(k, <<".">>, <<"_">>) = toolbox[i].ts_module}
       IN  IF Cardinality(ks) = 1 THEN CHOOSE k \in ks : TRUE ELSE None
  ELSE IF Depth(i) = 0 THEN toolbox[i].name
  ELSE NodeKey(Encloser(i)) \o <<".">> \o toolbox[i].name

\* every node that closes closes the node it lies in, with the bracket of
\* that node's kind, and no node stays open
WellNested ==
  /\ \A c \in Closes :
       /\ Enclosers(c) # {}
       /\ (toolbox[c].piece = "end_call") <=> (toolbox[Encloser(c)].piece = "call")
  /\ \A i \in Opens : Depth(i) > 0 => Enclosers(i) # {}
  /\ Cardinality(Opens) = Cardinality(Closes)

\* two nodes with the same parent
Siblings(i, j) ==
  /\ Depth(i) = Depth(j)
  /\ Depth(i) > 0 => Encloser(i) = Encloser(j)

\* C19: the toolbox tree holds one node for every generated key and for
\* every dotted prefix of one, each exactly once and directly inside the
\* node of its parent prefix; a node is a call of the category's function
\* exactly when its key was generated, and is otherwise a grouping category
\* named after its last segment; siblings are in ascending order.
C19_CategoryTree ==
  treePc = "written" =>
    /\ WellNested
    /\ {NodeKey(i) : i \in Opens} = AllPrefixes
    /\ \A i, j \in Opens : NodeKey(i) = NodeKey(j) => i = j
    /\ \A i \in Opens :
         /\ (toolbox[i].piece = "call") <=> (NodeKey(i) \in CategoryKeys)
         /\ toolbox[i].piece = "call" =>
              toolbox[i].function_name = DictMap(toolbox_function_names)[NodeKey(i)]
         /\ toolbox[i].piece = "category" =>
              toolbox[i].name = LastPart(NodeKey(i))
         /\ IF Depth(i) = 0 THEN ParentKey(NodeKey(i)) = <<>>
            ELSE NodeKey(Encloser(i)) = ParentKey(NodeKey(i))
    /\ \A i, j \in Opens :
         (i < j /\ Siblings(i, j)) =>
           TextLess(LastPart(NodeKey(i)), LastPart(NodeKey(j)))

\* a written toolbox with a grouping category, a call nested in a call and
\* two siblings of which the first is a call
C19_Witness ==
  /\ treePc = "written"
  /\ \E i \in Opens : toolbox[i].piece = "category"
  /\ \E i \in Opens :
       /\ toolbox[i].piece = "call"
       /\ Depth(i) > 0
       /\ toolbox[Encloser(i)].piece = "call"
  /\ \E i, j \in Opens :
       i < j /\ Siblings(i, j) /\ toolbox[i].piece = "call"

-----------------------------------------------------------------------------
(* The claim about the order of the blocks of a category                   *)

FunctionBlockTypes ==
  {"call_python_module_function", "call_python_constructor",
   "call_python_instance_method", "call_python_static_method"}

\* a getter or setter block of a module, class or instance variable
IsVariableBlock(b) ==
  b.type \in {"mrc_get_python_variable", "mrc_set_python_variable"}

\* a function, constructor or method block, as it is or as the value of the
\* variables_set block generateFunctionBlock wraps it in
IsFunctionBlock(b) ==
  \/ b.type \in FunctionBlockTypes
  \/ /\ b.type = "variables_set"
     /\ b.inputs[ValueKey].block.type \in FunctionBlockTypes

IsEnumValueBlock(b) == b.type = "mrc_get_python_enum_value"

\* 1 for a variable block, 2 for a function block, 3 for an enum-value
\* block, 0 for any other block
DeclarationRank(b) ==
  IF IsVariableBlock(b) THEN 1
  ELSE IF IsFunctionBlock(b) THEN 2
  ELSE IF IsEnumValueBlock(b) THEN 3
  ELSE 0

InDeclarationOrder(blocks) ==
  /\ \A i \in DOMAIN blocks : DeclarationRank(blocks[i]) > 0
  /\ \A i, j \in DOMAIN blocks :
       i < j => DeclarationRank(blocks[i]) <= DeclarationRank(blocks[j])

IsPrefixOf(a, b) == Len(a) <= Len(b) /\ SubSeq(b, 1, Len(a)) = a

\* C20: at every moment the block list of the category holds its variable
\* blocks before its function, constructor and method blocks and these
\* before its enum-value blocks, the written category holds that list, and
\* every step leaves the list as it is or appends to it.
C20_DeclarationOrder ==
  /\ [](/\ InDeclarationOrder(catBlocks)
        /\ catPc = "written" => catFile.toolbox.contents = catBlocks)
  /\ [][IsPrefixOf(catBlocks, catBlocks')]_vars

\* a written category with a setter block, a function block wrapped in a
\* variables_set block and an enum-value block
C20_Witness ==
  /\ catPc = "written"
  /\ \E i, j, k \in DOMAIN catBlocks :
       /\ i < j /\ j < k
       /\ catBlocks[i].type = "mrc_set_python_variable"
       /\ catBlocks[j].type = "variables_set"
       /\ IsEnumValueBlock(catBlocks[k])

-----------------------------------------------------------------------------
(* The claim about the enum-value blocks                                   *)

\* the value names of an enum
ValueNamesOf(enum) == {enum.values[k].key : k \in DOMAIN enum.values}

\* the field of a block with the given name
FieldOf(b, name) ==
  LET i == CHOOSE i \in DOMAIN b.fields : b.fields[i][1] = name
  IN  b.fields[i][2]

\* blocks is one enum-value block for each value name of enum, in
\* ascending order of the names, each with the class name of the enum as
\* ENUM_TYPE field and as enumType
AreEnumValueBlocksOf(blocks, enum) ==
  /\ Len(blocks) = Cardinality(ValueNamesOf(enum))
  /\ \A i \in DOMAIN blocks :
       /\ IsEnumValueBlock(blocks[i])
       /\ Len(blocks[i].fields) = 2
       /\ FieldOf(blocks[i], "ENUM_VALUE") \in ValueNamesOf(enum)
       /\ FieldOf(blocks[i], "ENUM_TYPE") = getClassName(enum.cls)
       /\ blocks[i].extraState.enumType = getClassName(enum.cls)
  /\ \A i, j \in DOMAIN blocks :
       i < j => TextLess(FieldOf(blocks[i], "ENUM_VALUE"),
                         FieldOf(blocks[j], "ENUM_VALUE"))

\* what a step appends to the block list of the category
AppendedBlocks == SubSeq(catBlocks', Len(catBlocks) + 1, Len(catBlocks'))

\* C21: the call of generateBlocksForEnum for an enum appends to the block
\* list exactly one enum-value block for each distinct value name of the
\* enum, in ascending order of the names, each with the type name of the
\* enum as ENUM_TYPE field and as enumType; for the enum with the members
\* kRed and kBlue these are two blocks, kBlue first and kRed second
C21_EnumValueBlocks ==
  [][CatCalls("enums") =>
       /\ IsPrefixOf(catBlocks, catBlocks')
       /\ AreEnumValueBlocksOf(AppendedBlocks, CatCall)
       /\ CatCall = EnumColor =>
            /\ Len(AppendedBlocks) = 2
            /\ FieldOf(AppendedBlocks[1], "ENUM_VALUE") = <<"k","B","l","u","e">>
            /\ FieldOf(AppendedBlocks[2], "ENUM_VALUE") = <<"k","R","e","d">>]_vars

\* the blocks of the enum with the members kRed and kBlue have been
\* appended behind blocks of variables or functions
C21_Witness ==
  /\ catPc = "generating"
  /\ Len(catBlocks) > 2
  /\ ~ IsEnumValueBlock(catBlocks[Len(catBlocks) - 2])
  /\ AreEnumValueBlocksOf(SubSeq(catBlocks, Len(catBlocks) - 1, Len(catBlocks)), EnumColor)

-----------------------------------------------------------------------------
(* The claim about the end of a token                                      *)

\* the index of the character that closes a bracket opened before index r,
\* c being the closing character: brackets opened in between are closed
\* first; Len(text) when there is none
RECURSIVE CloseFrom(_, _, _)
CloseFrom(text, r, c) ==
  IF r >= Len(text) THEN Len(text)
  ELSE IF At(text, r) \in {"(", "["}
  THEN LET q == CloseFrom(text, r + 1, IF At(text, r) = "(" THEN ")" ELSE "]")
       IN  IF q >= Len(text) THEN Len(text) ELSE CloseFrom(text, q + 1, c)
  ELSE IF At(text, r) = c THEN r
  ELSE CloseFrom(text, r + 1, c)

\* the index of the character that closes the bracket at index p
CloseOf(text, p) ==
  CloseFrom(text, p + 1, IF At(text, p) = "(" THEN ")" ELSE "]")

\* text[j] is a delimiter and every bracket opened in text[i..j) has been
\* closed before j
EndsToken(text, i, j, delimiters) ==
  /\ At(text, j) \in delimiters
  /\ \A p \in i .. (j - 1) :
       At(text, p) \in {"(", "["} => CloseOf(text, p) < j

\* the smallest such index, Len(text) when there is none
EndOfToken(text, i, delimiters) ==
  LET ends == {j \in i .. (Len(text) - 1) : EndsToken(text, i, j, delimiters)}
  IN  IF ends = {} THEN Len(text)
      ELSE CHOOSE j \in ends : \A k \in ends : j <= k

T_callableArgs == <<"a",":"," ","C","a","l","l","a","b","l","e","[","[","i","n","t",","," ","s","t","r","]",","," ","N","o","n","e","]",","," ","b",":"," ","i","n","t">>

\* C22: _findEndOfToken(text, i, delimiters) returns the smallest index
\* j >= i where text[j] is a delimiter and every ( or [ opened in text[i..j)
\* has been closed, and len(text) when there is no such index; the types of
\* `f(a: Callable[[int, str], None], b: int) -> None` are exactly
\* `Callable[[int, str], None]` and `int`
C22_EndOfToken ==
  tokPc = "scanned" =>
    /\ tokEnd = EndOfToken(tokText, tokI, tokDelimiters)
    /\ tokText = T_callableArgs =>
         /\ tokParsed.status = "ok"
         /\ tokParsed.arg_types = <<T_callable, T_int>>

\* the token that starts at the type of the first parameter of the example
\* ends behind its last bracket, after commas and spaces inside brackets
C22_Witness ==
  /\ tokPc = "scanned"
  /\ tokText = T_callableArgs
  /\ tokI = 3
  /\ tokDelimiters = {",", " "}
  /\ tokEnd = 29
  /\ \E j \in tokI .. (tokEnd - 1) : At(tokText, j) \in tokDelimiters

-----------------------------------------------------------------------------
(* The claim about the termination of processSignature                     *)

\* C23: for every line the outer pattern `name(...) -> ret` accepts,
\* whatever the text between the parentheses, processSignature returns or
\* raises after finitely many iterations of its loop, and the lists of
\* argument names, types and default values it returns are equally long
C23_ProcessSignatureTerminates ==
  (sigPc = "parsed" /\ _isSignature(line)) =>
    /\ sigOut.status \in {"ok", "raises"}
    /\ Len(sigOut.arg_names) = Len(sigOut.arg_types)
    /\ Len(sigOut.arg_types) = Len(sigOut.arg_default_values)

-----------------------------------------------------------------------------
(* The claim about the classes named in signatures                         *)

\* the routine members with documentation that the walk has visited: the
\* members, not passed over, of an object whose members were gone through
RoutinesVisited ==
  {r \in Objects :
     /\ Heap[r].kind = "routine"
     /\ Heap[r].doc # None /\ Heap[r].doc # <<>>
     /\ \E o \in Objects :
          /\ getmembers_calls[o] > 0
          /\ \E i \in DOMAIN members[o] :
               /\ members[o][i].member = r
               /\ ~Skipped(Heap, o, members[o][i].key, r)}

\* the type names of a signature: of its parameters and of what it returns
TypesNamedIn(signature) ==
  LET sig == processSignature(signature)
  IN  IF sig.status # "ok" THEN {}
      ELSE Range(sig.arg_types) \cup {sig.return_type}

\* the type names of the signatures of a routine, the numbered signatures
\* of an overloaded one
TypesNamedBy(fn) ==
  LET split == processFunctionDoc(fn)
  IN  UNION {TypesNamedIn(split.signatures[i]) : i \in DOMAIN split.signatures}

\* C24: when the walk has returned, for every routine member with
\* documentation it visited, every parameter type and return type named in
\* its signatures, numbered or single, that resolves to a class that is
\* neither built-in nor primitive is among the collected classes, whether
\* or not another type of the same signature cannot be resolved
C24_SignatureTypesCollected ==
  walkPc = "returned" =>
    \A r \in RoutinesVisited :
      \A t \in TypesNamedBy(Heap[r]) :
        (/\ ~isPrimitive(t)
         /\ getClass(t).ok
         /\ ~isBuiltInClass(getClass(t).cls))
        => Contains(classes, ObjectOfClass(Heap, getClass(t).cls))

-----------------------------------------------------------------------------
(* The claim about the base classes                                        *)

\* the classes, not built-in, that the walk met as a member it did not
\* pass over
ClassesReached ==
  {c \in Objects \ BuiltInObjects :
     /\ Heap[c].kind = "class"
     /\ \E o \in Objects :
          /\ getmembers_calls[o] > 0
          /\ \E i \in DOMAIN members[o] :
               /\ members[o][i].member = c
               /\ ~Skipped(Heap, o, members[o][i].key, c)}

\* C25: when the walk has returned, for every class, not built-in, that it
\* met as a member, every class of its base chain that is not built-in has
\* had its members gone through and is among the collected classes, also
\* the one that follows a built-in class in the chain
C25_AncestorsWalked ==
  walkPc = "returned" =>
    \A c \in ClassesReached :
      \A a \in Range(Heap[c].mro) \ BuiltInObjects :
        /\ getmembers_calls[a] > 0
        /\ Contains(classes, a)

-----------------------------------------------------------------------------
(* The claim about private members                                         *)

\* the name starts with _ and is neither _ followed by a digit nor __init__
IsPrivateName(key) ==
  /\ StartsWith(key, <<"_">>)
  /\ key # T_init
  /\ ~(Len(key) > 1 /\ key[2] \in DigitChars)

\* the walk is about to look at the next member of the object on top
AtMember ==
  /\ walkPc = "walking" /\ frames # <<>>
  /\ frames[Len(frames)].pending = <<>>
  /\ frames[Len(frames)].rest # <<>>

\* C26: a member of any kind, module, class, routine or data, whose name
\* starts with _ and is neither _ followed by a digit nor __init__ is
\* passed over by the walk: no call of _collectModulesAndClasses is made
\* for it and no alias is recorded for it; so is the member named _
C26_PrivateMembersSkipped ==
  [][(AtMember /\ IsPrivateName(frames[Len(frames)].rest[1].key)) =>
       /\ frames'[Len(frames)].pending = <<>>
       /\ dict_class_name_to_alias' = dict_class_name_to_alias]_vars

-----------------------------------------------------------------------------
(* The claim about the passes of Examine.examine                           *)

\* every class collected from a function signature has been examined, and
\* once
CollectedExaminedOnce ==
  \A i \in DOMAIN exSigClasses : exExamined[exSigClasses[i]] = 1

-----------------------------------------------------------------------------
(* The claim about readable and writable variables                         *)

\* the parents, names and values the classifications are compared on: a
\* module, a class, an enum class and an object that is neither; constant,
\* private and plain names; values of plain classes, of the excluded
\* classes and of the enum, a class, and properties with and without
\* accessors
VariableParents ==
  { [kind |-> "module", module |-> T_halModule, name |-> T_halModule, enum |-> FALSE],
    [kind |-> "class", module |-> ClassA.module, name |-> ClassA.name, enum |-> FALSE],
    [kind |-> "class", module |-> ClassA.module, name |-> ClassA.name, enum |-> TRUE],
    [kind |-> "value", module |-> ClassA.module, name |-> ClassA.name, enum |-> FALSE] }
VariableNames ==
  { <<"M","A","X">>, <<"M","A","X","_","1">>, <<"k","M","a","x">>, <<"k">>, <<"k","m","a","x">>,
    <<"k","9">>, <<"M","a","x">>, <<"s","p","e","e","d">>, <<"_","1","s","t">>, <<"_","1">>,
    <<"_","h","i","d","d","e","n">>, <<"_","K">>, <<"m","_","x">>, <<"W","P","I","S","t","r","u","c","t">> }
VariableObjects ==
  { IntValue, ValueOf(ClassLogger.module, ClassLogger.name),
    ValueOf(<<"t","y","p","i","n","g">>, <<"T","y","p","e","V","a","r">>),
    ValueOf(<<"_","_","f","u","t","u","r","e","_","_">>, <<"_","F","e","a","t","u","r","e">>),
    ValueOf(<<"b","u","i","l","t","i","n","s">>, <<"P","y","C","a","p","s","u","l","e">>),
    ValueOf(ClassA.module, ClassA.name),
    [IntValue EXCEPT !.kind = "class"], [IntValue EXCEPT !.kind = "routine"] }
  \cup {PropertyWith(g, s) : g, s \in {"routine", "none"}}

\* the name is all upper-case, or k followed by an upper-case letter
IsConstantName(key) ==
  \/ Upper(key) = key /\ Lower(key) # key
  \/ Len(key) > 1 /\ key[1] = "k" /\ IsUpperLetter(key[2])

WritableImpliesReadable(parent, key, object) ==
  /\ isModuleVariableWritable(parent, key, object) =>
       isModuleVariableReadable(parent, key, object)
  /\ isClassVariableWritable(parent, key, object) =>
       isClassVariableReadable(parent, key, object)
  /\ isInstanceVariableWritable(parent, key, object) =>
       isInstanceVariableReadable(parent, key, object)

ConstantsAreReadOnly(parent, key, object) ==
  IsConstantName(key) =>
    /\ ~isModuleVariableWritable(parent, key, object)
    /\ ~isClassVariableWritable(parent, key, object)

\* the triples of the category: its module or class with each of its
\* variables and properties
TriplesOf(cat) ==
  {<<ParentOf(cat), cat.variables[k].key, cat.variables[k].object>> :
     k \in DOMAIN cat.variables}
  \cup {<<ParentOf(cat), cat.properties[k].key, cat.properties[k].object>> :
          k \in DOMAIN cat.properties}

VariablePhases == {"variables", "instance_variables"}

\* in every group of the category the setter names are getter names
SettersAmongGetters(cat) ==
  \A phase \in VariablePhases \cap Range(PhasesOf(cat)) :
    \A group \in Range(CallsOf(cat, phase)) :
      Range(group.setter_var_names) \subseteq Range(group.getter_var_names)

\* the block before a setter block is the getter block of the same variable
SetterFollowsGetter(blocks) ==
  \A i \in DOMAIN blocks :
    blocks[i].type = "mrc_set_python_variable" =>
      /\ i > 1
      /\ blocks[i - 1].type = "mrc_get_python_variable"
      /\ blocks[i - 1].fields = blocks[i].fields
      /\ blocks[i - 1].extraState = blocks[i].extraState

\* no setter block is for a constant of a module or of a class
NoSetterOfConstant(blocks) ==
  \A i \in DOMAIN blocks :
    (blocks[i].type = "mrc_set_python_variable"
       /\ blocks[i].extraState.varKind # "instance") =>
      ~IsConstantName(FieldOf(blocks[i], "VAR"))

\* C28: writable implies readable for the module, class and instance
\* classifications of every (parent, name, value) triple; a module or class
\* variable whose name is all upper-case or k followed by an upper-case
\* letter is never writable; in every category the setter names of a type
\* group are among its getter names, a setter block comes directly after the
\* getter block of the same variable, and no constant has a setter block.
C28_WritableImpliesReadable ==
  /\ \A t \in (VariableParents \X VariableNames \X VariableObjects) \cup TriplesOf(catIn) :
       /\ WritableImpliesReadable(t[1], t[2], t[3])
       /\ ConstantsAreReadOnly(t[1], t[2], t[3])
  /\ SettersAmongGetters(catIn)
  /\ SetterFollowsGetter(catBlocks)
  /\ NoSetterOfConstant(catBlocks)

\* a written class whose blocks hold the getter of the constant MAX followed
\* by the getter of another variable, a module or class setter directly
\* after its getter, and the getter and the setter of a property
C28_Witness ==
  /\ catPc = "written"
  /\ catIn.owner = "class"
  /\ \E i, j, k \in DOMAIN catBlocks :
       /\ i + 1 \in DOMAIN catBlocks
       /\ catBlocks[i].type = "mrc_get_python_variable"
       /\ FieldOf(catBlocks[i], "VAR") = <<"M","A","X">>
       /\ catBlocks[i + 1].type = "mrc_get_python_variable"
       /\ catBlocks[j].type = "mrc_set_python_variable"
       /\ FieldOf(catBlocks[j], "VAR") = <<"s","p","e","e","d">>
       /\ catBlocks[k].type = "mrc_set_python_variable"
       /\ catBlocks[k].extraState.varKind = "instance"
       /\ FieldOf(catBlocks[k], "VAR") = <<"p">>

-----------------------------------------------------------------------------
(* The claim about the soundness of the allowed types                      *)

\* the classes whose name, as the allowed types list it, is class_name
ClassesNamed(class_name) ==
  {n \in Objects : Heap[n].kind = "class" /\ getClassName(Heap[n]) = class_name}

\* sub is a subclass of cls: cls is in the base chain (the mro) of sub
IsSubclassOf(sub, cls) == cls \in Range(Heap[sub].mro)

\* C29: once the allowed types are collected, every name in the allowed
\* types of a class A, other than the name of A, is the name of a class
\* that has A in its base chain, for classes with one base class and for
\* classes with several.
C29_AllowedTypesSound ==
  walkPc = "constructed" =>
    \A k \in DOMAIN dict_class_name_to_allowed_types :
      \A name \in Range(dict_class_name_to_allowed_types[k]) \ {k} :
        \E sub \in ClassesNamed(name), cls \in ClassesNamed(k) :
          IsSubclassOf(sub, cls)

-----------------------------------------------------------------------------
(* The claim about the importModule of the blocks of overloads             *)

\* the call block of a function block: the block itself, or the value of
\* the variables_set block that wraps it
CallBlockIn(b) ==
  IF b.type = "variables_set" THEN b.inputs[ValueKey].block ELSE b

\* C30: after a call of generateBlockForClassOrInstanceFunction every
\* constructor block and every static-method block it appended has the
\* module name of the class as importModule and every instance-method block
\* has the empty string, whatever the other overloads of the member are.
C30_ImportModulePerSignature ==
  (owner = "class" /\ last.outcome # "none") =>
    \A i \in DOMAIN NewBlocks :
      /\ CallBlockIn(NewBlocks[i]).type \in
           {"call_python_constructor", "call_python_static_method"} =>
           CallBlockIn(NewBlocks[i]).extraState.importModule =
             getModuleName(ClassA.module)
      /\ CallBlockIn(NewBlocks[i]).type = "call_python_instance_method" =>
           CallBlockIn(NewBlocks[i]).extraState.importModule = <<>>

====
